---- MODULE Spec2Model ----
(***************************************************************************)
(* Model of the sandbox rotation watchdog (src/app/api/watchdog/watchdog.ts)*)
(* and of the routes that trigger it.  One tick of the watchdog is a       *)
(* sequence of steps, one per awaited network call; the Edge Config store  *)
(* is a function from key to optional value; the clock is Date.now() in    *)
(* milliseconds.  Time passes between two ticks (the cron period or a full *)
(* rotation interval) and in the delay of the readiness loop; the other    *)
(* steps of a tick take no time.  Every network call (store read, store    *)
(* write, probe, provider call) may succeed or fail.                       *)
(***************************************************************************)
EXTENDS Integers, Sequences, FiniteSets, TLC

\* ---------------------------------------------------------------- bounds
MaxTicks == 2
MaxSandboxes == 2
MaxPolls == 1

\* ------------------------------------------------------ program constants
ROTATION_INTERVAL_MS == 5 * 60 * 60 * 1000
DRAIN_GRACE_MS == 10 * 60 * 1000
READINESS_DEADLINE_MS == 10 * 60 * 1000
POLL_DELAY_MS == 5000
RETRIES == 4
CRON_INTERVAL_MS == 5 * 60 * 1000

EDGE_CONFIG_KEYS ==
    [active |-> "sandbox_active_url",
     lastKnownGood |-> "sandbox_last_known_good_url",
     previous |-> "sandbox_previous_url",
     state |-> "sandbox_state"]

LEGACY_EDGE_CONFIG_KEYS ==
    [active |-> "sandbox.activeUrl",
     lastKnownGood |-> "sandbox.lastKnownGoodUrl",
     previous |-> "sandbox.previousUrl",
     state |-> "sandbox.state"]

UnderscoreKeys == {EDGE_CONFIG_KEYS[f] : f \in DOMAIN EDGE_CONFIG_KEYS}
DottedKeys == {LEGACY_EDGE_CONFIG_KEYS[f] : f \in DOMAIN LEGACY_EDGE_CONFIG_KEYS}
AllKeys == UnderscoreKeys \cup DottedKeys

\* --------------------------------------------------------- optional values
\* A value that may be null/undefined is a sequence of length 0 or 1.
Null == <<>>
Some(x) == <<x>>
IsSet(o) == o # <<>>
Val(o) == o[1]

\* ------------------------------------------------------------- data model
\* sandbox.domain(port): the URL is a function of the sandbox.
Url(id) == <<"https", id>>

DEFAULT_STATE ==
    [active |-> Null, draining |-> <<>>, lastRotationAt |-> Null,
     lastCheckAt |-> Null, lastFailure |-> Null]

\* The sandbox a previous deployment left under the dotted keys.
LegacySandbox ==
    [id |-> 0, url |-> Url(0), createdAt |-> 0, status |-> "healthy"]
LegacyState ==
    [active |-> Some(LegacySandbox), draining |-> <<>>, lastRotationAt |-> Some(0),
     lastCheckAt |-> Some(0), lastFailure |-> Null]

NoSandbox == [id |-> 0 - 1, url |-> Null, createdAt |-> 0, status |-> "none"]
NoHealth == [healthy |-> FALSE, reason |-> "none"]
NoError == [kind |-> "none", id |-> 0 - 1]

\* What a health probe of a sandbox can answer (checkSandboxHealth).
ProbeResults ==
    {[healthy |-> TRUE, reason |-> "none"],
     [healthy |-> FALSE, reason |-> "health-status-500"]}

\* By how many milliseconds the clock can advance between two consecutive
\* new Date() reads of ensureSandboxHealth.
ClockTicks == {0, 1}

\* The middleware while only the watchdog is looked at.
GwIdle ==
    [env |-> [SANDBOX_SELF_URL |-> Null, DISABLE_EDGE_REWRITE |-> "unset"],
     request |-> Null, failing |-> {}, activeUrl |-> Null, response |-> Null]

\* The time between the end of a tick and the start of the next one.
Gaps == {CRON_INTERVAL_MS, ROTATION_INTERVAL_MS}
\* Values of NEXT_APP_SKIP_MONITORING_ROUTES the ticks run under: unset, 'true'.
FlagValues == {Null, Some(<<"t", "r", "u", "e">>)}

\* The keepalive route while only the watchdog is looked at.
KeepaliveIdle ==
    [env |-> [KEEPALIVE_TOKEN |-> Null], request |-> Null, response |-> Null]

VARIABLES
    store,          \* Edge Config: key -> optional value
    clock,          \* Date.now()
    nextId,         \* the id the provider gives the next sandbox
    stopCalls,      \* ids of the sandboxes Stop/decommission was called on
    skipFlag,       \* process.env.NEXT_APP_SKIP_MONITORING_ROUTES
    ticks,          \* ticks started so far
    pc,             \* position of the running tick, "idle" when none runs
    forceQuery,     \* whether the last trigger request carried ?force
    forceProvision, \* handler's option
    state,          \* handler's loaded state
    nextState,      \* ensureSandboxHealth's clone
    now,            \* ensureSandboxHealth's now
    health,         \* ensureSandboxHealth's health
    rotationDue,    \* ensureSandboxHealth's rotationDue
    reason,         \* ensureSandboxHealth's reason for provisioning
    newSandbox,     \* the sandbox provisionSandbox returned
    attempt,        \* pRetry's attempt number
    deadline,       \* waitForSandboxReadiness's deadline
    polls,          \* short polls of the running readiness wait
    error,          \* the error thrown inside handler's try
    response,       \* what the last trigger returned
    trace,          \* external effects of the running/last tick, in order
    storeAtStart,   \* the store when the running/last tick loaded its state
    readyIds,       \* sandboxes that answered healthy in waitForSandboxReadiness
    activeWrites,   \* urls ever written to sandbox_active_url
    parked,         \* the locals of a second handler invocation in flight
    gw,             \* the edge middleware: its environment, request and answer
    keepalive       \* the keepalive route: its environment, request and answer

vars ==
    <<store, clock, nextId, stopCalls, skipFlag, ticks, pc, forceQuery, forceProvision,
      state, nextState, now, health, rotationDue, reason, newSandbox, attempt,
      deadline, polls, error, response, trace, storeAtStart, readyIds, activeWrites,
      parked, gw, keepalive>>

\* ------------------------------------------------------------ pure helpers
\* A string whose characters the code looks at (a flag value, a path, a host,
\* a referer) is the sequence of its characters.
UpperCaseLetters ==
    <<"A", "B", "C", "D", "E", "F", "G", "H", "I", "J", "K", "L", "M",
      "N", "O", "P", "Q", "R", "S", "T", "U", "V", "W", "X", "Y", "Z">>
LowerCaseLetters ==
    <<"a", "b", "c", "d", "e", "f", "g", "h", "i", "j", "k", "l", "m",
      "n", "o", "p", "q", "r", "s", "t", "u", "v", "w", "x", "y", "z">>

\* String.prototype.toLowerCase.
ToLowerCase(str) ==
    [i \in 1..Len(str) |->
        IF \E k \in 1..26 : UpperCaseLetters[k] = str[i]
        THEN LowerCaseLetters[CHOOSE k \in 1..26 : UpperCaseLetters[k] = str[i]]
        ELSE str[i]]

WhiteSpace == {" ", "\t", "\n"}

RECURSIVE TrimStart(_)
TrimStart(str) ==
    IF str # <<>> /\ Head(str) \in WhiteSpace THEN TrimStart(Tail(str)) ELSE str

RECURSIVE TrimEnd(_)
TrimEnd(str) ==
    IF str # <<>> /\ str[Len(str)] \in WhiteSpace
    THEN TrimEnd(SubSeq(str, 1, Len(str) - 1))
    ELSE str

\* String.prototype.trim.
Trim(str) == TrimEnd(TrimStart(str))

\* The flag values that leave the monitoring routes on, once normalized.
FlagOffLiterals ==
    {<<>>, <<"f", "a", "l", "s", "e">>, <<"0">>, <<"o", "f", "f">>}

\* monitoringRoutesDisabled() never finding the flag on.
monitoringRoutesDisabled_neverOn(value) == FALSE

\* monitoringRoutesDisabled() comparing the value as it is.
monitoringRoutesDisabled_asWritten(value) ==
    IF ~IsSet(value) THEN FALSE
    ELSE IF Val(value) = <<>> THEN FALSE
    ELSE Val(value) \notin FlagOffLiterals

\* monitoringRoutesDisabled(): an unset or empty flag is off; otherwise the
\* trimmed, lower-cased value decides.
monitoringRoutesDisabled(value) ==
    IF ~IsSet(value) THEN FALSE
    ELSE IF Val(value) = <<>> THEN FALSE
    ELSE LET normalized == ToLowerCase(Trim(Val(value)))
         IN  normalized \notin FlagOffLiterals

\* updateEdgeConfig's PATCH: one request applies every item.
ApplyItems(s, items) ==
    [k \in DOMAIN s |->
        IF \E i \in 1..Len(items) : items[i].key = k
        THEN LET last == CHOOSE i \in 1..Len(items) :
                            /\ items[i].key = k
                            /\ \A j \in 1..Len(items) : items[j].key = k => j <= i
             IN IF items[last].operation = "upsert" THEN Some(items[last].value) ELSE Null
        ELSE s[k]]

\* loadState: sandbox_state, else sandbox.state, else DEFAULT_STATE.
LoadedState(s) ==
    IF IsSet(s[EDGE_CONFIG_KEYS.state]) THEN Val(s[EDGE_CONFIG_KEYS.state])
    ELSE IF IsSet(s[LEGACY_EDGE_CONFIG_KEYS.state]) THEN Val(s[LEGACY_EDGE_CONFIG_KEYS.state])
    ELSE DEFAULT_STATE

\* RotationDue taking a state that was never rotated as due.
RotationDue_whenNeverRotated(st, t) ==
    IF ~IsSet(st.lastRotationAt) THEN TRUE
    ELSE t - Val(st.lastRotationAt) >= ROTATION_INTERVAL_MS

\* RotationDue with the comparison turned around.
RotationDue_flipped(st, t) ==
    IF ~IsSet(st.lastRotationAt) THEN FALSE
    ELSE t - Val(st.lastRotationAt) <= ROTATION_INTERVAL_MS

\* rotationDue of ensureSandboxHealth.
RotationDue(st, t) ==
    IF ~IsSet(st.lastRotationAt) THEN FALSE
    ELSE t - Val(st.lastRotationAt) >= ROTATION_INTERVAL_MS

\* HealthOf reporting a missing active sandbox as a failed health check.
HealthOf_missingIsFailedCheck(force, st, probe) ==
    IF force THEN [healthy |-> FALSE, reason |-> "force-provision-request"]
    ELSE IF IsSet(st.active) THEN probe
    ELSE [healthy |-> FALSE, reason |-> "health-check-failed"]

\* health of ensureSandboxHealth, given what a probe would answer.
HealthOf(force, st, probe) ==
    IF force THEN [healthy |-> FALSE, reason |-> "force-provision-request"]
    ELSE IF IsSet(st.active) THEN probe
    ELSE [healthy |-> FALSE, reason |-> "no-active-sandbox"]

\* Probes probing the active sandbox of a forced tick too.
Probes_evenWhenForced(force, st) == IsSet(st.active)

\* whether ensureSandboxHealth calls checkSandboxHealth on the active sandbox.
Probes(force, st) == ~force /\ IsSet(st.active)

ShouldProvision(force, h, due) == force \/ ~h.healthy \/ due

\* reason of ensureSandboxHealth's provisioning branch.
ProvisionReason(force, h) ==
    IF force THEN "force-provision-request"
    ELSE IF ~h.healthy THEN (IF h.reason = "none" THEN "health-check-failed" ELSE h.reason)
    ELSE "rotation-due"

\* PromoteItems pointing sandbox_active_url at the superseded sandbox.
PromoteItems_pointsAtPrevious(fresh, previous) ==
    <<[operation |-> "upsert", key |-> EDGE_CONFIG_KEYS.active,
       value |-> IF IsSet(previous) THEN Val(previous).url ELSE fresh.url],
      [operation |-> "upsert", key |-> EDGE_CONFIG_KEYS.lastKnownGood, value |-> fresh.url]>>

\* PromoteItems keeping the superseded sandbox as the last known good one.
PromoteItems_fallbackIsPrevious(fresh, previous) ==
    <<[operation |-> "upsert", key |-> EDGE_CONFIG_KEYS.active, value |-> fresh.url],
      [operation |-> "upsert", key |-> EDGE_CONFIG_KEYS.lastKnownGood,
       value |-> IF IsSet(previous) THEN Val(previous).url ELSE fresh.url]>>

\* PromoteItems without the upsert of sandbox_last_known_good_url.
PromoteItems_activeOnly(fresh, previous) ==
    <<[operation |-> "upsert", key |-> EDGE_CONFIG_KEYS.active, value |-> fresh.url]>>

\* promoteSandbox's items.
PromoteItems(fresh, previous) ==
    <<[operation |-> "upsert", key |-> EDGE_CONFIG_KEYS.active, value |-> fresh.url],
      [operation |-> "upsert", key |-> EDGE_CONFIG_KEYS.lastKnownGood, value |-> fresh.url]>>
    \o (IF IsSet(previous)
        THEN <<[operation |-> "upsert", key |-> EDGE_CONFIG_KEYS.previous,
                value |-> Val(previous).url]>>
        ELSE <<>>)

\* PersistItems migrating: the state is upserted and sandbox.state deleted.
PersistItems_dropsLegacyState(st) ==
    <<[operation |-> "upsert", key |-> EDGE_CONFIG_KEYS.state, value |-> st],
      [operation |-> "delete", key |-> LEGACY_EDGE_CONFIG_KEYS.state]>>

\* persistState's items.
PersistItems(st) ==
    <<[operation |-> "upsert", key |-> EDGE_CONFIG_KEYS.state, value |-> st]>>

\* Promoted pushing the fresh sandbox, not the previous one, onto draining.
Promoted_drainsFresh(st, fresh, previous, t, t2) ==
    [st EXCEPT
        !.active = Some([fresh EXCEPT !.status = "healthy"]),
        !.lastRotationAt = Some(t),
        !.draining = Append(@, [id |-> fresh.id, url |-> fresh.url,
                                createdAt |-> fresh.createdAt, status |-> fresh.status,
                                drainStartedAt |-> t2])]

\* Promoted leaving lastRotationAt as it was.
Promoted_keepsRotationTime(st, fresh, previous, t, t2) ==
    [st EXCEPT
        !.active = Some([fresh EXCEPT !.status = "healthy"]),
        !.draining =
            IF IsSet(previous)
            THEN Append(@, [id |-> Val(previous).id, url |-> Val(previous).url,
                            createdAt |-> Val(previous).createdAt,
                            status |-> Val(previous).status,
                            drainStartedAt |-> t2])
            ELSE @]

\* ensureSandboxHealth after promoteSandbox returned: the new active, the
\* rotation time (new Date() read at t) and the previous active pushed onto
\* draining (a second new Date(), read at t2).
Promoted(st, fresh, previous, t, t2) ==
    [st EXCEPT
        !.active = Some([fresh EXCEPT !.status = "healthy"]),
        !.lastRotationAt = Some(t),
        !.draining =
            IF IsSet(previous)
            THEN Append(@, [id |-> Val(previous).id, url |-> Val(previous).url,
                            createdAt |-> Val(previous).createdAt,
                            status |-> Val(previous).status,
                            drainStartedAt |-> t2])
            ELSE @]

\* AgedOut measuring the drain age against the rotation interval.
AgedOut_afterRotationInterval(d, t) == t - d.drainStartedAt >= ROTATION_INTERVAL_MS

\* AgedOut without the grace period.
AgedOut_noGrace(d, t) == t - d.drainStartedAt >= 0

\* drainAge >= DRAIN_GRACE_MS of ensureSandboxHealth's drain loop.
AgedOut(d, t) == t - d.drainStartedAt >= DRAIN_GRACE_MS

\* Survivors keeping every record.
Survivors_keepsAll(draining, t) == draining

\* the survivors of ensureSandboxHealth's drain loop.
Survivors(draining, t) == SelectSeq(draining, LAMBDA d : ~AgedOut(d, t))

\* Checked without the reset of lastFailure.
Checked_keepsFailure(st, t) == [st EXCEPT !.lastCheckAt = Some(t)]

\* handler's success branch before persistState.
Checked(st, t) == [st EXCEPT !.lastCheckAt = Some(t), !.lastFailure = Null]

\* handler's catch branch before persistState.
Failed(st, err, t) == [st EXCEPT !.lastFailure = Some([reason |-> err, at |-> t])]

\* ------------------------------------------------------------------- Init
Init ==
    /\ \E legacy \in BOOLEAN :
          store = [k \in AllKeys |->
                     IF legacy /\ k = LEGACY_EDGE_CONFIG_KEYS.state THEN Some(LegacyState)
                     ELSE IF legacy /\ k = LEGACY_EDGE_CONFIG_KEYS.active
                          THEN Some(LegacySandbox.url)
                     ELSE IF legacy /\ k = LEGACY_EDGE_CONFIG_KEYS.lastKnownGood
                          THEN Some(LegacySandbox.url)
                     ELSE Null]
    /\ clock = 0
    /\ nextId = 1
    /\ stopCalls = {}
    /\ skipFlag \in FlagValues
    /\ ticks = 0
    /\ pc = "idle"
    /\ forceQuery = FALSE
    /\ forceProvision = FALSE
    /\ state = DEFAULT_STATE
    /\ nextState = DEFAULT_STATE
    /\ now = 0
    /\ health = NoHealth
    /\ rotationDue = FALSE
    /\ reason = "none"
    /\ newSandbox = NoSandbox
    /\ attempt = 0
    /\ deadline = 0
    /\ polls = 0
    /\ error = NoError
    /\ response = "none"
    /\ trace = <<>>
    /\ storeAtStart = store
    /\ readyIds = {}
    /\ activeWrites = {}
    /\ parked = <<>>
    /\ gw = GwIdle
    /\ keepalive = KeepaliveIdle

\* ------------------------------------------------------- the tick trigger
\* handler(options) up to loadState: the flag check, then the tick starts.
\* Nothing in it looks at an invocation that is already running.
StartTick(query, options, gap) ==
    /\ ticks < MaxTicks
    /\ ticks' = ticks + 1
    /\ clock' = clock + gap
    /\ forceQuery' = query
    /\ forceProvision' = options.forceProvision
    /\ state' = DEFAULT_STATE
    /\ nextState' = DEFAULT_STATE
    /\ now' = 0
    /\ health' = NoHealth
    /\ rotationDue' = FALSE
    /\ reason' = "none"
    /\ newSandbox' = NoSandbox
    /\ attempt' = 0
    /\ deadline' = 0
    /\ polls' = 0
    /\ error' = NoError
    /\ trace' = <<>>
    /\ storeAtStart' = store
    /\ IF monitoringRoutesDisabled(skipFlag)
       THEN /\ response' = "200 watchdog routes disabled"
            /\ pc' = "idle"
       ELSE /\ response' = "none"
            /\ pc' = "load"
    /\ UNCHANGED <<gw, keepalive, store, nextId, stopCalls, skipFlag, readyIds, activeWrites>>

\* handler(options) called while no other invocation is in flight.
HandlerCall(query, options, gap) ==
    /\ pc = "idle"
    /\ StartTick(query, options, gap)
    /\ UNCHANGED parked

\* A route that answers before it reaches the handler.
RouteRefuses(query, gap, resp) ==
    /\ pc = "idle"
    /\ ticks < MaxTicks
    /\ ticks' = ticks + 1
    /\ clock' = clock + gap
    /\ forceQuery' = query
    /\ forceProvision' = FALSE
    /\ state' = DEFAULT_STATE
    /\ nextState' = DEFAULT_STATE
    /\ now' = 0
    /\ health' = NoHealth
    /\ rotationDue' = FALSE
    /\ reason' = "none"
    /\ newSandbox' = NoSandbox
    /\ attempt' = 0
    /\ deadline' = 0
    /\ polls' = 0
    /\ error' = NoError
    /\ trace' = <<>>
    /\ storeAtStart' = store
    /\ response' = resp
    /\ pc' = "idle"
    /\ UNCHANGED <<parked, gw, keepalive,
                   store, nextId, stopCalls, skipFlag, readyIds, activeWrites>>

\* The options a route passes to watchdogHandler(): none, whatever the query.
RouteOptions(query) == [forceProvision |-> FALSE]

\* GET and POST of app/api/watchdog/route.ts.
ApiWatchdogRoute ==
    \E query \in BOOLEAN, gap \in Gaps :
        IF monitoringRoutesDisabled(skipFlag)
        THEN RouteRefuses(query, gap, "404")
        ELSE HandlerCall(query, RouteOptions(query), gap)

\* GET and POST of app/watchdog/route.ts.
WatchdogRoute ==
    \E query \in BOOLEAN, gap \in Gaps :
        HandlerCall(query, RouteOptions(query), gap)

\* The exported handler called with options of the caller's choice.
DirectCall ==
    \E force \in BOOLEAN, gap \in Gaps :
        HandlerCall(FALSE, [forceProvision |-> force], gap)

\* ---------------------------------------------------------------- the tick
\* loadState; a failed read is thrown outside handler's try.
LoadState ==
    /\ pc = "load"
    /\ \E readOk \in BOOLEAN :
          IF readOk
          THEN /\ state' = LoadedState(store)
               /\ nextState' = LoadedState(store)
               /\ pc' = "assess"
               /\ UNCHANGED response
          ELSE /\ response' = "unhandled error"
               /\ pc' = "idle"
               /\ UNCHANGED <<state, nextState>>
    /\ UNCHANGED <<reason, parked, gw, keepalive,
                   store, clock, nextId, stopCalls, skipFlag, ticks, forceQuery,
                   forceProvision, now, health, rotationDue, newSandbox, attempt,
                   deadline, polls, error, trace, storeAtStart, readyIds,
                   activeWrites>>

\* What the fetch of pingKeepalive can do: answer 2xx, answer another status,
\* or throw.
PingOutcomes == {"ok", "non-2xx", "threw"}

\* PingThrows without the catch of pingKeepalive.
PingThrows_uncaught(ping) == ping = "threw"

\* Whether pingKeepalive throws to ensureSandboxHealth: the status is not
\* looked at and the catch only logs.
PingThrows(ping) == FALSE

\* ensureSandboxHealth up to shouldProvision: now, rotationDue, the probe of
\* the active sandbox, the keepalive ping.
AssessWith(pings) ==
    /\ pc = "assess"
    /\ \E probe \in ProbeResults, ping \in pings :
          LET h == HealthOf(forceProvision, nextState, probe)
              due == RotationDue(nextState, clock)
              probed == Probes(forceProvision, nextState)
              pinged == h.healthy /\ IsSet(nextState.active)
          IN /\ ping # "ok" => pinged
             /\ now' = clock
             /\ health' = h
             /\ rotationDue' = due
             /\ trace' = trace
                    \o (IF probed THEN <<[ev |-> "probe", id |-> Val(nextState.active).id]>>
                        ELSE <<>>)
                    \o (IF pinged THEN <<[ev |-> "keepalive", id |-> Val(nextState.active).id,
                                          outcome |-> ping]>>
                        ELSE <<>>)
             /\ IF pinged /\ PingThrows(ping)
                THEN /\ pc' = "fail"
                     /\ error' = [kind |-> "keepalive-failed", id |-> 0 - 1]
                     /\ UNCHANGED <<attempt, reason>>
                ELSE /\ error' = error
                     /\ IF ShouldProvision(forceProvision, h, due)
                        THEN /\ pc' = "provision"
                             /\ attempt' = 1
                             /\ reason' = ProvisionReason(forceProvision, h)
                        ELSE /\ pc' = "drain"
                             /\ UNCHANGED <<attempt, reason>>
    /\ UNCHANGED <<parked, gw, keepalive,
                   store, clock, nextId, stopCalls, skipFlag, ticks, forceQuery,
                   forceProvision, state, nextState, newSandbox, deadline, polls,
                   response, storeAtStart, readyIds, activeWrites>>

\* ensureSandboxHealth up to shouldProvision with a keepalive ping, if one is
\* sent, that is answered 2xx.
Assess == AssessWith({"ok"})

\* ensureSandboxHealth up to shouldProvision with a keepalive ping that is
\* answered non-2xx or throws.
AssessPingFails == AssessWith(PingOutcomes \ {"ok"})

\* One attempt of provisionSandbox under pRetry: Sandbox.create, the bootstrap
\* commands, and on a failed command the stop of the partial sandbox.
AttemptOutcomes == {"started", "create-failed", "bootstrap-failed"}

\* What sandbox.stop() on the partial sandbox of a failed bootstrap can do.
StopOutcomes == {"stopped", "error"}

\* AttemptError letting a failed stop replace the bootstrap error.
AttemptError_stopErrorWins(outcome, stop) ==
    [kind |-> IF outcome = "bootstrap-failed" /\ stop = "error"
              THEN "stop-failed" ELSE outcome,
     id |-> 0 - 1]

\* The error a failed attempt throws into pRetry: the create error or the
\* bootstrap error; the catch of stop() only logs.
AttemptError(outcome, stop) == [kind |-> outcome, id |-> 0 - 1]

\* RetriesLeft allowing one retry more.
RetriesLeft_oneMore(attemptNumber) == attemptNumber <= RETRIES + 1

\* pRetry({retries: 4}): whether it runs attempt again after the failure of
\* attempt number attemptNumber (the first one is 1).
RetriesLeft(attemptNumber) == attemptNumber <= RETRIES

ProvisionAttemptWith(stops) ==
    /\ pc = "provision"
    /\ \E outcome \in AttemptOutcomes, stop \in stops :
          /\ outcome # "create-failed" => nextId <= MaxSandboxes
          /\ stop # "stopped" => outcome = "bootstrap-failed"
          /\ IF outcome = "started"
             THEN /\ newSandbox' = [id |-> nextId, url |-> Url(nextId),
                                    createdAt |-> clock, status |-> "provisioning"]
                  /\ nextId' = nextId + 1
                  /\ trace' = Append(trace, [ev |-> "create", id |-> nextId])
                  /\ deadline' = clock + READINESS_DEADLINE_MS
                  /\ pc' = "waitReady"
                  /\ attempt' = 0
                  /\ UNCHANGED <<error, stopCalls>>
             ELSE /\ IF outcome = "bootstrap-failed"
                     THEN /\ nextId' = nextId + 1
                          /\ stopCalls' = stopCalls \cup {nextId}
                          /\ trace' = trace \o <<[ev |-> "create", id |-> nextId],
                                                 [ev |-> "stop", id |-> nextId,
                                                  outcome |-> stop]>>
                     ELSE UNCHANGED <<nextId, stopCalls, trace>>
                  /\ IF RetriesLeft(attempt)
                     THEN /\ attempt' = attempt + 1
                          /\ UNCHANGED <<pc, error>>
                     ELSE /\ error' = AttemptError(outcome, stop)
                          /\ pc' = "fail"
                          /\ UNCHANGED attempt
                  /\ UNCHANGED <<newSandbox, deadline>>
    /\ UNCHANGED <<reason, parked, gw, keepalive,
                   store, clock, skipFlag, ticks, forceQuery, forceProvision, state,
                   nextState, now, health, rotationDue, polls, response,
                   storeAtStart, readyIds, activeWrites>>

\* One attempt of provisionSandbox whose stop() calls succeed.
ProvisionAttempt == ProvisionAttemptWith({"stopped"})

\* One attempt whose bootstrap fails and whose stop() of the partial sandbox
\* fails too.
ProvisionAttemptStopFails == ProvisionAttemptWith(StopOutcomes \ {"stopped"})

\* What one round of waitForSandboxReadiness's loop can take: the delay, or
\* (the timer firing late) the whole deadline.
PollElapsed == {POLL_DELAY_MS, READINESS_DEADLINE_MS}

\* PollReady returning on the first probe whatever it answered.
PollReady_ignoresProbe ==
    /\ pc = "waitReady"
    /\ clock < deadline
    /\ \E probe \in ProbeResults :
          /\ readyIds' = IF probe.healthy THEN readyIds \cup {newSandbox.id} ELSE readyIds
          /\ trace' = IF probe.healthy
                      THEN Append(trace, [ev |-> "ready", id |-> newSandbox.id])
                      ELSE trace
    /\ pc' = "promote"
    /\ polls' = 0
    /\ UNCHANGED <<reason, parked, gw, keepalive,
                   store, clock, nextId, stopCalls, skipFlag, ticks, forceQuery,
                   forceProvision, state, nextState, now, health, rotationDue,
                   newSandbox, attempt, deadline, error, response, storeAtStart,
                   activeWrites>>

\* One round of waitForSandboxReadiness's loop: a probe of the candidate, then
\* return or delay.
PollReady ==
    /\ pc = "waitReady"
    /\ clock < deadline
    /\ \E probe \in ProbeResults :
          IF probe.healthy
          THEN /\ readyIds' = readyIds \cup {newSandbox.id}
               /\ trace' = Append(trace, [ev |-> "ready", id |-> newSandbox.id])
               /\ pc' = "promote"
               /\ polls' = 0
               /\ UNCHANGED clock
          ELSE /\ \E d \in PollElapsed :
                    /\ d < READINESS_DEADLINE_MS => polls < MaxPolls
                    /\ clock' = clock + d
               /\ polls' = polls + 1
               /\ UNCHANGED <<readyIds, trace, pc>>
    /\ UNCHANGED <<reason, parked, gw, keepalive,
                   store, nextId, stopCalls, skipFlag, ticks, forceQuery, forceProvision,
                   state, nextState, now, health, rotationDue, newSandbox, attempt,
                   deadline, error, response, storeAtStart, activeWrites>>

\* waitForSandboxReadiness past its deadline.
ReadinessTimeout ==
    /\ pc = "waitReady"
    /\ ~(clock < deadline)
    /\ error' = [kind |-> "failed-to-become-healthy-in-time", id |-> newSandbox.id]
    /\ pc' = "fail"
    /\ UNCHANGED <<reason, parked, gw, keepalive,
                   store, clock, nextId, stopCalls, skipFlag, ticks, forceQuery,
                   forceProvision, state, nextState, now, health, rotationDue,
                   newSandbox, attempt, deadline, polls, response, trace,
                   storeAtStart, readyIds, activeWrites>>

\* Promote with the state updated but the pointer write left out.
Promote_skipsPointerWrite ==
    /\ pc = "promote"
    /\ nextState' = Promoted(nextState, newSandbox, nextState.active, clock, clock)
    /\ pc' = "drain"
    /\ UNCHANGED <<reason, parked, gw, keepalive,
                   store, activeWrites, trace, error, clock, nextId, stopCalls,
                   skipFlag, ticks, forceQuery, forceProvision, state, now, health,
                   rotationDue, newSandbox, attempt, deadline, polls, response,
                   storeAtStart, readyIds>>

\* promoteSandbox, then ensureSandboxHealth's update of nextState. The two
\* timestamps are two reads of the clock, which advances by one of lates
\* between them.
PromoteWith(lates) ==
    /\ pc = "promote"
    /\ \E writeOk \in BOOLEAN :
          IF writeOk
          THEN /\ store' = ApplyItems(store, PromoteItems(newSandbox, nextState.active))
               /\ activeWrites' = activeWrites \cup {newSandbox.url}
               /\ trace' = Append(trace, [ev |-> "promote", id |-> newSandbox.id,
                                          at |-> clock])
               /\ \E late \in lates :
                     /\ late # 0 => IsSet(nextState.active)
                     /\ clock' = clock + late
                     /\ nextState' = Promoted(nextState, newSandbox, nextState.active,
                                              clock, clock + late)
               /\ pc' = "drain"
               /\ UNCHANGED error
          ELSE /\ error' = [kind |-> "edge-config-update-failed", id |-> 0 - 1]
               /\ pc' = "fail"
               /\ UNCHANGED <<store, activeWrites, trace, nextState, clock>>
    /\ UNCHANGED <<reason, parked, gw, keepalive,
                   nextId, stopCalls, skipFlag, ticks, forceQuery, forceProvision,
                   state, now, health, rotationDue, newSandbox, attempt, deadline,
                   polls, response, storeAtStart, readyIds>>

\* The promotion when both timestamps are read within one millisecond.
Promote == PromoteWith({0})

\* The promotion when the clock advances between the two reads.
PromoteLate == PromoteWith(ClockTicks \ {0})

DecommissionOutcomes == {"stopped", "not-found", "error"}

\* ensureSandboxHealth's drain loop with decommissionSandbox for every record
\* aged out, then handler's lastCheckAt and lastFailure.
Drain ==
    /\ pc = "drain"
    /\ LET aged == SelectSeq(nextState.draining, LAMBDA d : AgedOut(d, now))
       IN \E outcome \in [1..Len(aged) -> DecommissionOutcomes] :
             /\ stopCalls' = stopCalls \cup
                    {aged[i].id : i \in {j \in 1..Len(aged) : outcome[j] # "not-found"}}
             /\ trace' = trace \o
                    [i \in 1..Len(aged) |-> [ev |-> outcome[i], id |-> aged[i].id]]
    /\ nextState' = Checked([nextState EXCEPT !.draining = Survivors(@, now)], clock)
    /\ pc' = "persist"
    /\ UNCHANGED <<reason, parked, gw, keepalive,
                   store, clock, nextId, skipFlag, ticks, forceQuery, forceProvision,
                   state, now, health, rotationDue, newSandbox, attempt, deadline,
                   polls, error, response, storeAtStart, readyIds, activeWrites>>

\* persistState(nextState) of handler's success branch.
Persist ==
    /\ pc = "persist"
    /\ \E writeOk \in BOOLEAN :
          IF writeOk
          THEN /\ store' = ApplyItems(store, PersistItems(nextState))
               /\ trace' = Append(trace, [ev |-> "persist", id |-> 0 - 1])
               /\ response' = "200 ok"
               /\ pc' = "idle"
               /\ UNCHANGED error
          ELSE /\ error' = [kind |-> "edge-config-update-failed", id |-> 0 - 1]
               /\ pc' = "fail"
               /\ UNCHANGED <<store, trace, response>>
    /\ UNCHANGED <<reason, parked, gw, keepalive,
                   clock, nextId, stopCalls, skipFlag, ticks, forceQuery, forceProvision,
                   state, nextState, now, health, rotationDue, newSandbox, attempt,
                   deadline, polls, storeAtStart, readyIds, activeWrites>>

\* handler's catch: lastFailure on the loaded state, persistState(state), 500.
\* A failed write is thrown out of the catch block.
FailPersist ==
    /\ pc = "fail"
    /\ state' = Failed(state, error, clock)
    /\ \E writeOk \in BOOLEAN :
          IF writeOk
          THEN /\ store' = ApplyItems(store, PersistItems(state'))
               /\ trace' = Append(trace, [ev |-> "persist-failure", id |-> 0 - 1])
               /\ response' = "500 watchdog failure"
          ELSE /\ response' = "unhandled error"
               /\ UNCHANGED <<store, trace>>
    /\ pc' = "idle"
    /\ UNCHANGED <<reason, parked, gw, keepalive,
                   clock, nextId, stopCalls, skipFlag, ticks, forceQuery, forceProvision,
                   nextState, now, health, rotationDue, newSandbox, attempt,
                   deadline, polls, error, storeAtStart, readyIds, activeWrites>>

Next ==
    \/ ApiWatchdogRoute
    \/ WatchdogRoute
    \/ DirectCall
    \/ LoadState
    \/ Assess
    \/ ProvisionAttempt
    \/ PollReady
    \/ ReadinessTimeout
    \/ Promote
    \/ Drain
    \/ Persist
    \/ FailPersist

Spec == Init /\ [][Next]_vars

\* The ticks with a clock that can advance between the two timestamp reads
\* of a promotion.
NextClock ==
    \/ Next
    \/ PromoteLate

SpecClock == Init /\ [][NextClock]_vars

\* The ticks with a provider whose stop() of a partial sandbox can fail.
NextProvision ==
    \/ Next
    \/ ProvisionAttemptStopFails

SpecProvision == Init /\ [][NextProvision]_vars

\* A sandbox_state as the type SandboxState allows it, with an active sandbox
\* and no lastRotationAt.
UnrotatedState == [LegacyState EXCEPT !.lastRotationAt = Null]

\* The ticks over a store that is empty or holds UnrotatedState.
InitStored ==
    /\ \E unrotated \in BOOLEAN :
          store = [k \in AllKeys |->
                     IF unrotated /\ k = EDGE_CONFIG_KEYS.state THEN Some(UnrotatedState)
                     ELSE IF unrotated /\ k = EDGE_CONFIG_KEYS.active
                          THEN Some(LegacySandbox.url)
                     ELSE IF unrotated /\ k = EDGE_CONFIG_KEYS.lastKnownGood
                          THEN Some(LegacySandbox.url)
                     ELSE Null]
    /\ skipFlag \in FlagValues
    /\ clock = 0
    /\ nextId = 1
    /\ stopCalls = {}
    /\ ticks = 0
    /\ pc = "idle"
    /\ forceQuery = FALSE
    /\ forceProvision = FALSE
    /\ state = DEFAULT_STATE
    /\ nextState = DEFAULT_STATE
    /\ now = 0
    /\ health = NoHealth
    /\ rotationDue = FALSE
    /\ reason = "none"
    /\ newSandbox = NoSandbox
    /\ attempt = 0
    /\ deadline = 0
    /\ polls = 0
    /\ error = NoError
    /\ response = "none"
    /\ trace = <<>>
    /\ storeAtStart = store
    /\ readyIds = {}
    /\ activeWrites = {}
    /\ parked = <<>>
    /\ gw = GwIdle
    /\ keepalive = KeepaliveIdle

SpecStored == InitStored /\ [][Next]_vars

\* The ticks with a keepalive endpoint that can answer non-2xx or not at all.
NextKeepalive ==
    \/ Next
    \/ AssessPingFails

SpecKeepalive == Init /\ [][NextKeepalive]_vars

\* ------------------------------------------------- overlapping invocations
\* The locals of the handler invocation the actions above work on.
TickLocals ==
    [pc |-> pc, forceQuery |-> forceQuery, forceProvision |-> forceProvision,
     state |-> state, nextState |-> nextState, now |-> now, health |-> health,
     rotationDue |-> rotationDue, reason |-> reason, newSandbox |-> newSandbox,
     attempt |-> attempt, deadline |-> deadline, polls |-> polls, error |-> error,
     response |-> response, trace |-> trace, storeAtStart |-> storeAtStart]

\* A trigger request that arrives while a tick awaits one of its calls: the
\* route calls watchdogHandler() at once, and the event loop runs the new
\* invocation while the first one is suspended (kept in parked).
OverlappingCall ==
    /\ pc # "idle"
    /\ IF IsSet(parked) THEN Val(parked).pc = "idle" ELSE TRUE
    /\ ~monitoringRoutesDisabled(skipFlag)
    /\ parked' = Some(TickLocals)
    /\ \E query \in BOOLEAN : StartTick(query, RouteOptions(query), 0)

\* The event loop resumes the suspended invocation and suspends the other.
Resume ==
    /\ IsSet(parked)
    /\ Val(parked).pc # "idle"
    /\ parked' = Some(TickLocals)
    /\ pc' = Val(parked).pc
    /\ forceQuery' = Val(parked).forceQuery
    /\ forceProvision' = Val(parked).forceProvision
    /\ state' = Val(parked).state
    /\ nextState' = Val(parked).nextState
    /\ now' = Val(parked).now
    /\ health' = Val(parked).health
    /\ rotationDue' = Val(parked).rotationDue
    /\ reason' = Val(parked).reason
    /\ newSandbox' = Val(parked).newSandbox
    /\ attempt' = Val(parked).attempt
    /\ deadline' = Val(parked).deadline
    /\ polls' = Val(parked).polls
    /\ error' = Val(parked).error
    /\ response' = Val(parked).response
    /\ trace' = Val(parked).trace
    /\ storeAtStart' = Val(parked).storeAtStart
    /\ UNCHANGED <<gw, keepalive, store, clock, nextId, stopCalls, skipFlag, ticks, readyIds,
                   activeWrites>>

NextOverlap ==
    \/ Next
    \/ OverlappingCall
    \/ Resume

SpecOverlap == Init /\ [][NextOverlap]_vars

\* The store a deployment's first rotation and the next tick leave: the tick at
\* CRON_INTERVAL_MS loaded the legacy state, promoted sandbox 1 and persisted;
\* the tick at 2 * CRON_INTERVAL_MS found sandbox 1 healthy and persisted.
RotatedStore ==
    LET t == CRON_INTERVAL_MS
        legacy == [k \in AllKeys |->
                     IF k = LEGACY_EDGE_CONFIG_KEYS.state THEN Some(LegacyState)
                     ELSE IF k = LEGACY_EDGE_CONFIG_KEYS.active THEN Some(LegacySandbox.url)
                     ELSE IF k = LEGACY_EDGE_CONFIG_KEYS.lastKnownGood
                          THEN Some(LegacySandbox.url)
                     ELSE Null]
        fresh == [id |-> 1, url |-> Url(1), createdAt |-> t, status |-> "provisioning"]
        promoted == ApplyItems(legacy, PromoteItems(fresh, LegacyState.active))
        st == Checked(Promoted(LegacyState, fresh, LegacyState.active, t, t), t)
    IN  ApplyItems(ApplyItems(promoted, PersistItems(st)),
                   PersistItems(Checked(st, 2 * t)))

\* The deployment after its first rotation, before the next trigger.
InitRotated ==
    /\ store = RotatedStore
    /\ clock = 2 * CRON_INTERVAL_MS
    /\ nextId = 2
    /\ stopCalls = {}
    /\ skipFlag \in FlagValues
    /\ ticks = 0
    /\ pc = "idle"
    /\ forceQuery = FALSE
    /\ forceProvision = FALSE
    /\ state = DEFAULT_STATE
    /\ nextState = DEFAULT_STATE
    /\ now = 0
    /\ health = NoHealth
    /\ rotationDue = FALSE
    /\ reason = "none"
    /\ newSandbox = NoSandbox
    /\ attempt = 0
    /\ deadline = 0
    /\ polls = 0
    /\ error = NoError
    /\ response = "none"
    /\ trace = <<>>
    /\ storeAtStart = store
    /\ readyIds = {1}
    /\ activeWrites = {Url(1)}
    /\ parked = <<>>
    /\ gw = GwIdle
    /\ keepalive = KeepaliveIdle

\* Sequential ticks after the first rotation, where every pending await
\* resolves and the cron trigger keeps calling the route: no tick stays
\* suspended for ever.
SpecRotatedFair == InitRotated /\ [][Next]_vars /\ WF_vars(Next)

\* Overlapping invocations after the first rotation.
SpecOverlapRotated == InitRotated /\ [][NextOverlap]_vars

\* ============================================================ the routes
\* Values of NEXT_APP_SKIP_MONITORING_ROUTES a deployment can carry: unset, '',
\* 'true', '1', 'on', ' TRUE ', 'yes', 'false', 'False', ' false ', '0', 'off',
\* 'OFF', ' '.
RouteFlagValues ==
    {Null, Some(<<>>),
     Some(<<"t", "r", "u", "e">>), Some(<<"1">>), Some(<<"o", "n">>),
     Some(<<" ", "T", "R", "U", "E", " ">>), Some(<<"y", "e", "s">>),
     Some(<<"f", "a", "l", "s", "e">>), Some(<<"F", "a", "l", "s", "e">>),
     Some(<<" ", "f", "a", "l", "s", "e", " ">>), Some(<<"0">>),
     Some(<<"o", "f", "f">>), Some(<<"O", "F", "F">>), Some(<<" ">>)}

\* Values of KEEPALIVE_TOKEN in the environment of the keepalive route.
KeepaliveTokens == {Null, Some(""), Some("s3cret")}

\* What request.headers.get('x-keepalive-token') can return.
TokenHeaders == {Null, Some(""), Some("s3cret"), Some("S3CRET"), Some("other")}

Unauthorized == [status |-> 401, body |-> [status |-> "unauthorized"]]
Acknowledged == [status |-> 200, body |-> [status |-> "ok"]]

\* GET of app/internal/keepalive/route.ts answering whenever the header is
\* the expected one, set or not.
KeepaliveGET_acceptsUnset(env, request) ==
    IF request.token # env.KEEPALIVE_TOKEN THEN Unauthorized ELSE Acknowledged

\* GET of app/internal/keepalive/route.ts.
KeepaliveGET(env, request) ==
    LET token == request.token
        expected == env.KEEPALIVE_TOKEN
    IN  IF ~IsSet(expected) THEN Unauthorized
        ELSE IF Val(expected) = "" THEN Unauthorized
        ELSE IF token # expected THEN Unauthorized
        ELSE Acknowledged

\* The routes of a deployment with its environment, before any request.
InitRoutes ==
    /\ store = [k \in AllKeys |-> Null]
    /\ skipFlag \in RouteFlagValues
    /\ keepalive \in {[env |-> [KEEPALIVE_TOKEN |-> expected],
                        request |-> Some([token |-> token]),
                        response |-> Null] :
                          expected \in KeepaliveTokens, token \in TokenHeaders}
    /\ clock = 0
    /\ nextId = 1
    /\ stopCalls = {}
    /\ ticks = 0
    /\ pc = "idle"
    /\ forceQuery = FALSE
    /\ forceProvision = FALSE
    /\ state = DEFAULT_STATE
    /\ nextState = DEFAULT_STATE
    /\ now = 0
    /\ health = NoHealth
    /\ rotationDue = FALSE
    /\ reason = "none"
    /\ newSandbox = NoSandbox
    /\ attempt = 0
    /\ deadline = 0
    /\ polls = 0
    /\ error = NoError
    /\ response = "none"
    /\ trace = <<>>
    /\ storeAtStart = store
    /\ readyIds = {}
    /\ activeWrites = {}
    /\ parked = <<>>
    /\ gw = GwIdle

\* A GET /internal/keepalive request is answered.
KeepaliveRoute ==
    /\ IsSet(keepalive.request)
    /\ ~IsSet(keepalive.response)
    /\ keepalive' = [keepalive EXCEPT
                        !.response = Some(KeepaliveGET(keepalive.env,
                                                       Val(keepalive.request)))]
    /\ UNCHANGED <<store, clock, nextId, stopCalls, skipFlag, ticks, pc, forceQuery,
                   forceProvision, state, nextState, now, health, rotationDue, reason,
                   newSandbox, attempt, deadline, polls, error, response, trace,
                   storeAtStart, readyIds, activeWrites, parked, gw>>

\* The route handlers alone: a trigger request stops where the tick begins.
NextRoutes ==
    \/ ApiWatchdogRoute
    \/ WatchdogRoute
    \/ KeepaliveRoute

SpecRoutes == InitRoutes /\ [][NextRoutes]_vars

\* ======================================================= edge middleware
\* A string the middleware searches or compares by characters (a path, a
\* host, a referer) is the sequence of its characters.
StartsWith(str, prefix) ==
    Len(prefix) <= Len(str) /\ SubSeq(str, 1, Len(prefix)) = prefix

Includes(str, part) ==
    \E i \in 1..(Len(str) - Len(part) + 1) : SubSeq(str, i, i + Len(part) - 1) = part

ROUTE_BYPASS_PREFIXES ==
    {<<"/", "a", "p", "i">>,
     <<"/", "w", "a", "t", "c", "h", "d", "o", "g">>,
     <<"/", "f", "a", "v", "i", "c", "o", "n", ".", "i", "c", "o">>,
     <<"/", "r", "o", "b", "o", "t", "s", ".", "t", "x", "t">>,
     <<"/", "s", "i", "t", "e", "m", "a", "p">>,
     <<"/", "b", "o", "o", "t", "s", "t", "r", "a", "p", ".", "j", "s">>,
     <<"/", "b", "o", "o", "t", "s", "t", "r", "a", "p", ".", "j", "s", ".", "m", "a", "p">>}

LOCAL_HOME_PREFIX == <<"/", "l", "o", "c", "a", "l", "-", "h", "o", "m", "e">>
NEXT_ASSETS_PREFIX == <<"/", "_", "n", "e", "x", "t">>

\* A URL string is a tuple: <<>> is the empty string, a tuple of one element
\* a string new URL() rejects, <<scheme, host>> an origin, and
\* <<scheme, host, pathname, search>> a URL with a path and a query.
EmptyString == <<>>
MalformedUrl == <<"not a url">>
WellFormed(urlString) == Len(urlString) \in {2, 4}

\* new URL(urlString) of a well-formed string.
ParseUrl(urlString) ==
    [scheme |-> urlString[1],
     host |-> urlString[2],
     pathname |-> IF Len(urlString) = 4 THEN urlString[3] ELSE <<"/">>,
     search |-> IF Len(urlString) = 4 THEN urlString[4] ELSE ""]

\* URL.prototype.toString.
UrlToString(url) == <<url.scheme, url.host, url.pathname, url.search>>

\* composeSandboxUrl keeping the query of the target when the request has none.
composeSandboxUrl_keepsTargetQuery(baseUrl, request) ==
    LET target == ParseUrl(baseUrl)
    IN UrlToString([target EXCEPT
           !.pathname = request.pathname,
           !.search = IF request.search = "" THEN @ ELSE request.search])

\* composeSandboxUrl, called with a baseUrl that new URL() accepts.
composeSandboxUrl(baseUrl, request) ==
    LET target == ParseUrl(baseUrl)
    IN UrlToString([target EXCEPT
           !.pathname = request.pathname,
           !.search = request.search])

\* extractOrigin: the origin, or null for a string new URL() rejects.
extractOrigin(urlString) ==
    IF WellFormed(urlString)
    THEN Some(<<ParseUrl(urlString).scheme, ParseUrl(urlString).host>>)
    ELSE Null

\* safeHostFromUrl: the lower-cased host, or null.
safeHostFromUrl(urlString) ==
    IF WellFormed(urlString) THEN Some(ToLowerCase(ParseUrl(urlString).host)) ELSE Null

\* isSelfRequest comparing the Host header as it came, without toLowerCase.
isSelfRequest_caseSensitive(env, request) ==
    IF ~IsSet(env.SANDBOX_SELF_URL) \/ Val(env.SANDBOX_SELF_URL) = EmptyString
    THEN FALSE
    ELSE LET selfHost == safeHostFromUrl(Val(env.SANDBOX_SELF_URL))
             requestHost == IF IsSet(request.host) THEN Val(request.host)
                            ELSE request.urlHost
         IN IF ~IsSet(selfHost) \/ Val(selfHost) = <<>> THEN TRUE
            ELSE IF requestHost = <<>> THEN FALSE
            ELSE requestHost = Val(selfHost)

\* isSelfRequest.
isSelfRequest(env, request) ==
    IF ~IsSet(env.SANDBOX_SELF_URL) \/ Val(env.SANDBOX_SELF_URL) = EmptyString
    THEN FALSE
    ELSE LET selfHost == safeHostFromUrl(Val(env.SANDBOX_SELF_URL))
             requestHost ==
                 ToLowerCase(IF IsSet(request.host) THEN Val(request.host)
                             ELSE request.urlHost)
         IN IF ~IsSet(selfHost) \/ Val(selfHost) = <<>> THEN TRUE
            ELSE IF requestHost = <<>> THEN FALSE
            ELSE requestHost = Val(selfHost)

\* shouldBypassMiddleware without the x-sandbox-bypass header rule.
shouldBypassMiddleware_ignoresHeader(env, request) ==
    \/ isSelfRequest(env, request)
    \/ env.DISABLE_EDGE_REWRITE = "true"
    \/ /\ StartsWith(request.pathname, NEXT_ASSETS_PREFIX)
       /\ Includes(request.referer, LOCAL_HOME_PREFIX)
    \/ \E prefix \in ROUTE_BYPASS_PREFIXES : StartsWith(request.pathname, prefix)

\* shouldBypassMiddleware.
shouldBypassMiddleware(env, request) ==
    \/ isSelfRequest(env, request)
    \/ env.DISABLE_EDGE_REWRITE = "true"
    \/ request.bypassHeader = "true"
    \/ /\ StartsWith(request.pathname, NEXT_ASSETS_PREFIX)
       /\ Includes(request.referer, LOCAL_HOME_PREFIX)
    \/ \E prefix \in ROUTE_BYPASS_PREFIXES : StartsWith(request.pathname, prefix)

\* The keys the middleware reads (its own EDGE_CONFIG_KEYS and
\* LEGACY_EDGE_CONFIG_KEYS name the same keys as the watchdog's).
ActiveKeys == <<EDGE_CONFIG_KEYS.active, LEGACY_EDGE_CONFIG_KEYS.active>>
FallbackKeys == <<EDGE_CONFIG_KEYS.lastKnownGood, LEGACY_EDGE_CONFIG_KEYS.lastKnownGood>>

\* if (value) of readEdgeConfigUrl: neither null nor the empty string.
Truthy(value) == IsSet(value) /\ Val(value) # EmptyString

\* readEdgeConfigUrl going on to the next key when a read fails.
RECURSIVE readEdgeConfigUrl_skipsFailedKey(_, _, _)
readEdgeConfigUrl_skipsFailedKey(st, failing, keys) ==
    IF keys = <<>> THEN [threw |-> FALSE, value |-> Null, reads |-> <<>>]
    ELSE IF Head(keys) \notin failing /\ Truthy(st[Head(keys)])
    THEN [threw |-> FALSE, value |-> st[Head(keys)], reads |-> <<Head(keys)>>]
    ELSE LET rest == readEdgeConfigUrl_skipsFailedKey(st, failing, Tail(keys))
         IN [rest EXCEPT !.reads = <<Head(keys)>> \o @]

\* readEdgeConfigUrl over store st when get() throws for the keys in failing:
\* the first truthy value, the keys read, and whether a get() threw.
RECURSIVE readEdgeConfigUrl(_, _, _)
readEdgeConfigUrl(st, failing, keys) ==
    IF keys = <<>> THEN [threw |-> FALSE, value |-> Null, reads |-> <<>>]
    ELSE IF Head(keys) \in failing
    THEN [threw |-> TRUE, value |-> Null, reads |-> <<Head(keys)>>]
    ELSE IF Truthy(st[Head(keys)])
    THEN [threw |-> FALSE, value |-> st[Head(keys)], reads |-> <<Head(keys)>>]
    ELSE LET rest == readEdgeConfigUrl(st, failing, Tail(keys))
         IN [rest EXCEPT !.reads = <<Head(keys)>> \o @]

\* What the middleware returns, or the exception it lets escape.
GwResponse(kind, url, routing, origin, cacheControl, reads) ==
    [kind |-> kind, url |-> url, routing |-> routing, origin |-> origin,
     cacheControl |-> cacheControl, reads |-> reads]

\* NextResponse.next().
PassThrough(reads) == GwResponse("next", <<>>, "none", Null, "none", reads)
\* new NextResponse('No healthy sandbox available', {status: 503, ...}).
ServiceUnavailable(reads) == GwResponse("503", <<>>, "none", Null, "no-store", reads)
\* An exception on its way up.
Thrown(reads) == GwResponse("thrown", <<>>, "none", Null, "none", reads)
\* The end of a try block reached without a return.
FellThrough(reads) == GwResponse("none", <<>>, "none", Null, "none", reads)

\* rewriteToSandbox labelling every rewrite edge-rewrite.
rewriteToSandbox_oneLabel(kind, targetUrl, request, reads) ==
    IF ~WellFormed(targetUrl) THEN Thrown(reads)
    ELSE GwResponse("rewrite", composeSandboxUrl(targetUrl, request), "edge-rewrite",
                    extractOrigin(targetUrl), "none", reads)

\* rewriteToSandbox: composeSandboxUrl throws on a targetUrl new URL() rejects.
rewriteToSandbox(kind, targetUrl, request, reads) ==
    IF ~WellFormed(targetUrl) THEN Thrown(reads)
    ELSE GwResponse("rewrite", composeSandboxUrl(targetUrl, request),
                    IF kind = "active" THEN "edge-rewrite" ELSE "edge-rewrite-stale",
                    extractOrigin(targetUrl), "none", reads)

\* The try block of middleware.
EdgeRouting(request, st, failing) ==
    LET activeUrl == readEdgeConfigUrl(st, failing, ActiveKeys)
        fallbackUrl == readEdgeConfigUrl(st, failing, FallbackKeys)
    IN IF activeUrl.threw THEN Thrown(activeUrl.reads)
       ELSE IF IsSet(activeUrl.value)
       THEN rewriteToSandbox("active", Val(activeUrl.value), request, activeUrl.reads)
       ELSE IF fallbackUrl.threw THEN Thrown(activeUrl.reads \o fallbackUrl.reads)
       ELSE IF IsSet(fallbackUrl.value)
       THEN rewriteToSandbox("fallback", Val(fallbackUrl.value), request,
                             activeUrl.reads \o fallbackUrl.reads)
       ELSE FellThrough(activeUrl.reads \o fallbackUrl.reads)

\* resolveSandboxOrigin.
resolveSandboxOrigin(st, failing) ==
    LET activeUrl == readEdgeConfigUrl(st, failing, ActiveKeys)
        fallbackUrl == readEdgeConfigUrl(st, failing, FallbackKeys)
    IN IF activeUrl.threw THEN [threw |-> TRUE, value |-> Null, reads |-> activeUrl.reads]
       ELSE IF IsSet(activeUrl.value)
       THEN [threw |-> FALSE, value |-> extractOrigin(Val(activeUrl.value)),
             reads |-> activeUrl.reads]
       ELSE IF fallbackUrl.threw
       THEN [threw |-> TRUE, value |-> Null, reads |-> activeUrl.reads \o fallbackUrl.reads]
       ELSE IF IsSet(fallbackUrl.value)
       THEN [threw |-> FALSE, value |-> extractOrigin(Val(fallbackUrl.value)),
             reads |-> activeUrl.reads \o fallbackUrl.reads]
       ELSE [threw |-> FALSE, value |-> Null, reads |-> activeUrl.reads \o fallbackUrl.reads]

\* handleLocalHome.
handleLocalHome(st, failing) ==
    LET sandboxOrigin == resolveSandboxOrigin(st, failing)
    IN IF sandboxOrigin.threw THEN PassThrough(sandboxOrigin.reads)
       ELSE IF ~IsSet(sandboxOrigin.value) THEN PassThrough(sandboxOrigin.reads)
       ELSE GwResponse("next", <<>>, "local-view", sandboxOrigin.value, "none",
                       sandboxOrigin.reads)

\* middleware.
middleware(env, request, st, failing) ==
    IF StartsWith(request.pathname, LOCAL_HOME_PREFIX) THEN handleLocalHome(st, failing)
    ELSE IF shouldBypassMiddleware(env, request) THEN PassThrough(<<>>)
    ELSE LET routed == EdgeRouting(request, st, failing)
         IN IF routed.kind \in {"thrown", "none"} THEN ServiceUnavailable(routed.reads)
            ELSE routed

\* ----------------------------------------------- the middleware's inputs
Paths ==
    {<<"/">>,
     <<"/", "d", "o", "c", "s">>,
     <<"/", "a", "p", "i", "/", "r", "u", "n">>,
     <<"/", "w", "a", "t", "c", "h", "d", "o", "g">>,
     <<"/", "f", "a", "v", "i", "c", "o", "n", ".", "i", "c", "o">>,
     <<"/", "r", "o", "b", "o", "t", "s", ".", "t", "x", "t">>,
     <<"/", "s", "i", "t", "e", "m", "a", "p", ".", "x", "m", "l">>,
     <<"/", "b", "o", "o", "t", "s", "t", "r", "a", "p", ".", "j", "s">>,
     <<"/", "b", "o", "o", "t", "s", "t", "r", "a", "p", ".", "j", "s", ".", "m", "a", "p">>,
     <<"/", "l", "o", "c", "a", "l", "-", "h", "o", "m", "e">>,
     <<"/", "_", "n", "e", "x", "t", "/", "a">>}

HostApp == <<"a", "p", "p">>
HostAppMixed == <<"A", "p", "p">>
HostBox == <<"b", "o", "x">>

\* The Host header of a request, and the host of its URL.
RequestHosts ==
    {[host |-> Some(HostApp), urlHost |-> HostApp],
     [host |-> Some(HostAppMixed), urlHost |-> HostApp],
     [host |-> Some(HostBox), urlHost |-> HostBox],
     [host |-> Null, urlHost |-> HostApp]}

Referers == {<<>>, <<"/", "l", "o", "c", "a", "l", "-", "h", "o", "m", "e">>}

Requests ==
    {[pathname |-> p, search |-> q, host |-> h.host, urlHost |-> h.urlHost,
      bypassHeader |-> b, referer |-> r] :
        p \in Paths, q \in {"", "?a=1"}, h \in RequestHosts, b \in {"unset", "true"},
        r \in Referers}

\* process.env of the middleware.
GatewayEnvs ==
    {[SANDBOX_SELF_URL |-> u, DISABLE_EDGE_REWRITE |-> d] :
        u \in {Null, Some(<<"https", HostAppMixed>>), Some(MalformedUrl)},
        d \in {"unset", "true"}}

\* A backend URL with a path and a query of its own.
UrlWithPath(id) == <<"https", id, <<"/", "b", "a", "s", "e">>, "?t=1">>

\* What the store can hold under the four keys the middleware reads.
GatewayStores ==
    {[k \in AllKeys |->
        IF k = EDGE_CONFIG_KEYS.active THEN a
        ELSE IF k = LEGACY_EDGE_CONFIG_KEYS.active THEN la
        ELSE IF k = EDGE_CONFIG_KEYS.lastKnownGood THEN f
        ELSE IF k = LEGACY_EDGE_CONFIG_KEYS.lastKnownGood THEN lf
        ELSE Null] :
        a \in {Null, Some(EmptyString), Some(UrlWithPath(1)), Some(MalformedUrl)},
        la \in {Null, Some(Url(0))},
        f \in {Null, Some(Url(2)), Some(MalformedUrl)},
        lf \in {Null, Some(Url(0))}}

\* The keys whose get() throws while a request is served.
ReadFailures == {{}} \cup {{ActiveKeys[i]} : i \in 1..2} \cup {{FallbackKeys[i]} : i \in 1..2}

\* The middleware with a request at hand that it has not answered yet.
GwStart(env, request, failing) ==
    [env |-> env, request |-> Some(request), failing |-> failing, activeUrl |-> Null,
     response |-> Null]

InitGateway ==
    /\ store \in GatewayStores
    /\ gw \in {GwStart(env, request, failing) :
                    env \in GatewayEnvs, request \in Requests, failing \in ReadFailures}
    /\ clock = 0
    /\ nextId = 1
    /\ stopCalls = {}
    /\ skipFlag = Null
    /\ ticks = 0
    /\ pc = "idle"
    /\ forceQuery = FALSE
    /\ forceProvision = FALSE
    /\ state = DEFAULT_STATE
    /\ nextState = DEFAULT_STATE
    /\ now = 0
    /\ health = NoHealth
    /\ rotationDue = FALSE
    /\ reason = "none"
    /\ newSandbox = NoSandbox
    /\ attempt = 0
    /\ deadline = 0
    /\ polls = 0
    /\ error = NoError
    /\ response = "none"
    /\ trace = <<>>
    /\ storeAtStart = store
    /\ readyIds = {}
    /\ activeWrites = {}
    /\ parked = <<>>
    /\ keepalive = KeepaliveIdle

\* middleware(request) with the store as it is and get() throwing for the
\* keys in gw.failing.
GatewayRequest ==
    /\ IsSet(gw.request)
    /\ ~IsSet(gw.response)
    /\ gw' = [gw EXCEPT
                 !.response = Some(middleware(gw.env, Val(gw.request), store, gw.failing))]
    /\ UNCHANGED <<store, clock, nextId, stopCalls, skipFlag, ticks, pc, forceQuery,
                   forceProvision, state, nextState, now, health, rotationDue, reason,
                   newSandbox, attempt, deadline, polls, error, response, trace,
                   storeAtStart, readyIds, activeWrites, parked, keepalive>>

NextGateway == GatewayRequest

SpecGateway == InitGateway /\ [][NextGateway]_vars

\* ------------------------------------- the middleware beside the watchdog
\* A request the middleware rewrites: no bypass, nothing local.
PlainRequest ==
    [pathname |-> <<"/", "d", "o", "c", "s">>, search |-> "", host |-> Some(HostApp),
     urlHost |-> HostApp, bypassHeader |-> "unset", referer |-> <<>>]

\* A deployment with an empty Edge Config and a request on its way to the
\* middleware.
InitServe ==
    /\ store = [k \in AllKeys |-> Null]
    /\ gw = GwStart(GwIdle.env, PlainRequest, {})
    /\ clock = 0
    /\ nextId = 1
    /\ stopCalls = {}
    /\ skipFlag \in FlagValues
    /\ ticks = 0
    /\ pc = "idle"
    /\ forceQuery = FALSE
    /\ forceProvision = FALSE
    /\ state = DEFAULT_STATE
    /\ nextState = DEFAULT_STATE
    /\ now = 0
    /\ health = NoHealth
    /\ rotationDue = FALSE
    /\ reason = "none"
    /\ newSandbox = NoSandbox
    /\ attempt = 0
    /\ deadline = 0
    /\ polls = 0
    /\ error = NoError
    /\ response = "none"
    /\ trace = <<>>
    /\ storeAtStart = store
    /\ readyIds = {}
    /\ activeWrites = {}
    /\ parked = <<>>
    /\ keepalive = KeepaliveIdle

\* middleware up to the end of its first await in the try block: the
\* readEdgeConfigUrl of the active keys, and the rewrite when it found a url.
GatewayReadsActive ==
    /\ IsSet(gw.request)
    /\ ~IsSet(gw.response)
    /\ ~IsSet(gw.activeUrl)
    /\ ~StartsWith(Val(gw.request).pathname, LOCAL_HOME_PREFIX)
    /\ ~shouldBypassMiddleware(gw.env, Val(gw.request))
    /\ LET activeUrl == readEdgeConfigUrl(store, gw.failing, ActiveKeys)
       IN  gw' = IF activeUrl.threw \/ IsSet(activeUrl.value)
                 THEN [gw EXCEPT !.response =
                          Some(middleware(gw.env, Val(gw.request), store, gw.failing))]
                 ELSE [gw EXCEPT !.activeUrl = Some(activeUrl)]
    /\ UNCHANGED <<store, clock, nextId, stopCalls, skipFlag, ticks, pc, forceQuery,
                   forceProvision, state, nextState, now, health, rotationDue, reason,
                   newSandbox, attempt, deadline, polls, error, response, trace,
                   storeAtStart, readyIds, activeWrites, parked, keepalive>>

\* middleware from its second await on: the readEdgeConfigUrl of the fallback
\* keys over the store as it is by then, the rewrite, or the 503.
GatewayReadsFallback ==
    /\ IsSet(gw.request)
    /\ ~IsSet(gw.response)
    /\ IsSet(gw.activeUrl)
    /\ LET fallbackUrl == readEdgeConfigUrl(store, gw.failing, FallbackKeys)
           reads == Val(gw.activeUrl).reads \o fallbackUrl.reads
           routed == IF fallbackUrl.threw THEN Thrown(reads)
                     ELSE IF IsSet(fallbackUrl.value)
                     THEN rewriteToSandbox("fallback", Val(fallbackUrl.value),
                                           Val(gw.request), reads)
                     ELSE FellThrough(reads)
       IN  gw' = [gw EXCEPT !.response =
                     Some(IF routed.kind \in {"thrown", "none"}
                          THEN ServiceUnavailable(routed.reads)
                          ELSE routed)]
    /\ UNCHANGED <<store, clock, nextId, stopCalls, skipFlag, ticks, pc, forceQuery,
                   forceProvision, state, nextState, now, health, rotationDue, reason,
                   newSandbox, attempt, deadline, polls, error, response, trace,
                   storeAtStart, readyIds, activeWrites, parked, keepalive>>

\* The ticks, and the middleware serving a request while they run.
NextServe ==
    \/ Next
    \/ GatewayReadsActive
    \/ GatewayReadsFallback

SpecServe == InitServe /\ [][NextServe]_vars

\* ================================================================ claims
StateKey == EDGE_CONFIG_KEYS.state
ActiveKey == EDGE_CONFIG_KEYS.active
LastKnownGoodKey == EDGE_CONFIG_KEYS.lastKnownGood
PointerKeys ==
    {EDGE_CONFIG_KEYS.active, EDGE_CONFIG_KEYS.lastKnownGood, EDGE_CONFIG_KEYS.previous}

HasEvent(ev) == \E i \in 1..Len(trace) : trace[i].ev = ev
TickOk == pc = "idle" /\ response = "200 ok"
TickEnded == pc = "idle" /\ response \in {"200 ok", "500 watchdog failure", "unhandled error"}
StoredState == Val(store[StateKey])

\* C1: whenever the final persist of handler's success branch has succeeded,
\* the stored sandbox_state has lastFailure = null.
C1_PersistClearsLastFailure ==
    TickOk => IsSet(store[StateKey]) /\ StoredState.lastFailure = Null

\* A successful tick that loaded a state carrying a lastFailure.
C1_Witness == TickOk /\ IsSet(state.lastFailure)

\* C2: after a tick whose promoteSandbox succeeded and which ran to completion,
\* sandbox_active_url and sandbox_last_known_good_url both equal the url of
\* the active sandbox of the stored sandbox_state.
C2_PointersMatchActiveAfterPromotion ==
    TickOk /\ HasEvent("promote") =>
        /\ IsSet(store[StateKey])
        /\ IsSet(StoredState.active)
        /\ store[ActiveKey] = Some(Val(StoredState.active).url)
        /\ store[LastKnownGoodKey] = Some(Val(StoredState.active).url)

\* A completed tick that promoted a sandbox over a predecessor.
C2_Witness == TickOk /\ HasEvent("promote") /\ IsSet(state.active)

\* C3: whenever no tick is in progress and both sandbox_state.active and
\* sandbox_active_url are set, sandbox_state.active.url = sandbox_active_url,
\* whichever store writes failed.
C3_I1AtRest ==
    (pc = "idle" /\ IsSet(store[StateKey]) /\ IsSet(StoredState.active)
        /\ IsSet(store[ActiveKey]))
    => Val(StoredState.active).url = Val(store[ActiveKey])

\* C4: with a provider that gives every sandbox a fresh id, the active sandbox
\* of the stored sandbox_state is never one of its draining records.
C4_ActiveNotDraining ==
    IsSet(store[StateKey]) /\ IsSet(StoredState.active) =>
        \A i \in 1..Len(StoredState.draining) :
            StoredState.draining[i].id # Val(StoredState.active).id

\* A stored state with an active sandbox and a draining one.
C4_Witness ==
    /\ IsSet(store[StateKey])
    /\ IsSet(StoredState.active)
    /\ Len(StoredState.draining) > 0

\* The tick at hand was not forced, found its active sandbox healthy and
\* its last rotation less than ROTATION_INTERVAL_MS before now.
HealthyAndNotDue ==
    /\ ~forceProvision
    /\ IsSet(state.active)
    /\ health.healthy
    /\ IsSet(state.lastRotationAt)
    /\ now - Val(state.lastRotationAt) < ROTATION_INTERVAL_MS

\* C5: a tick that is not forced, whose active sandbox probes healthy and
\* whose rotation is not due creates no sandbox, writes no routing pointer and
\* leaves the active sandbox and lastRotationAt of the state as they were.
C5_HealthyTickKeepsActive ==
    HealthyAndNotDue =>
        /\ ~HasEvent("create")
        /\ ~HasEvent("promote")
        /\ \A k \in PointerKeys : store[k] = storeAtStart[k]
        /\ LoadedState(store).active = LoadedState(storeAtStart).active
        /\ LoadedState(store).lastRotationAt = LoadedState(storeAtStart).lastRotationAt

\* Such a tick after it has written its state.
C5_Witness == TickOk /\ HealthyAndNotDue /\ HasEvent("keepalive")

\* C6: sandbox_last_known_good_url only ever changes to the url of a sandbox
\* that had answered healthy in waitForSandboxReadiness before the write, and
\* once set it is never unset.
C6_LastKnownGoodOnlyReady ==
    [][/\ store'[LastKnownGoodKey] # store[LastKnownGoodKey] =>
            /\ IsSet(store'[LastKnownGoodKey])
            /\ \E id \in readyIds : store'[LastKnownGoodKey] = Some(Url(id))
       /\ HasEvent("promote")' /\ ~HasEvent("promote") =>
            \E id \in readyIds : store'[LastKnownGoodKey] = Some(Url(id))]_vars

\* A failed tick that leaves a sandbox_last_known_good_url written earlier.
C6_Witness ==
    /\ pc = "idle"
    /\ response = "500 watchdog failure"
    /\ IsSet(storeAtStart[LastKnownGoodKey])
    /\ IsSet(store[LastKnownGoodKey])

\* The events ev1 of the trace all come before its events ev2, and every
\* event ev2 has an event ev1 for the same sandbox.
Precedes(ev1, ev2) ==
    \A j \in 1..Len(trace) :
        trace[j].ev = ev2 =>
            \E i \in 1..(j - 1) : trace[i].ev = ev1 /\ trace[i].id = trace[j].id

\* C7: in a tick the create of a sandbox precedes its readiness, its
\* readiness the pointer write, the pointer write every write of
\* sandbox_state; so the stored sandbox_state never names as active a
\* provisioned sandbox whose url has not been written to sandbox_active_url.
C7_PointerWriteBeforeStateWrite ==
    /\ Precedes("create", "ready")
    /\ Precedes("ready", "promote")
    /\ \A i, j \in 1..Len(trace) :
          trace[i].ev = "promote" /\ trace[j].ev \in {"persist", "persist-failure"}
              => i < j
    /\ (IsSet(store[StateKey]) /\ IsSet(StoredState.active)
            /\ Val(StoredState.active).id >= 1)
        => Val(StoredState.active).url \in activeWrites

\* A tick with all four events.
C7_Witness ==
    TickOk /\ HasEvent("create") /\ HasEvent("ready") /\ HasEvent("promote")
        /\ HasEvent("persist")

\* C8: a tick whose new sandbox never probes healthy before the deadline
\* writes no pointer, leaves sandbox_state.active the previous active,
\* records lastFailure with the timeout of that sandbox and answers 500.
C8_ReadinessTimeoutRecorded ==
    (pc = "idle" /\ error.kind = "failed-to-become-healthy-in-time") =>
        /\ ~HasEvent("promote")
        /\ \A k \in PointerKeys : store[k] = storeAtStart[k]
        /\ LoadedState(store).active = LoadedState(storeAtStart).active
        /\ IsSet(store[StateKey])
        /\ IsSet(StoredState.lastFailure)
        /\ Val(StoredState.lastFailure).reason =
              [kind |-> "failed-to-become-healthy-in-time", id |-> newSandbox.id]
        /\ response = "500 watchdog failure"

\* C9: a tick that hits a fatal error at any step, the state load and the
\* lastFailure write included, ends with the 500 response, never with an
\* error thrown out of handler.
C9_FatalErrorGives500 ==
    pc = "idle" => response # "unhandled error"

\* C10: a trigger request carrying ?force runs its tick with
\* forceProvision = true.
C10_ForceQueryForces ==
    forceQuery /\ pc # "idle" => forceProvision

\* The tick at hand is past ensureSandboxHealth's decision to provision.
PastDecision == pc \in {"provision", "waitReady", "promote", "drain", "persist", "fail"}

\* C11: a tick with forceProvision = true never probes the active sandbox and
\* provisions with the reason force-provision-request; it reaches the drain
\* step only through a promotion, which makes the new sandbox the active one
\* and appends the previous active, when there was one, to draining.
C11_ForcedTickProvisionsUnprobed ==
    forceProvision =>
        /\ ~HasEvent("probe")
        /\ ~HasEvent("keepalive")
        /\ (PastDecision \/ HasEvent("create")) => reason = "force-provision-request"
        /\ (pc \in {"drain", "persist"} \/ TickOk) => HasEvent("promote")
        /\ HasEvent("promote") =>
              /\ nextState.active = Some([newSandbox EXCEPT !.status = "healthy"])
              /\ IsSet(state.active) =>
                    /\ Len(nextState.draining) > 0
                    /\ nextState.draining[Len(nextState.draining)].id = Val(state.active).id
                    /\ pc = "drain" =>
                          SubSeq(nextState.draining, 1, Len(nextState.draining) - 1)
                              = state.draining
              /\ (~IsSet(state.active) /\ pc = "drain") => nextState.draining = state.draining

\* A forced tick that replaced an active sandbox and ran to completion.
C11_Witness ==
    /\ TickOk
    /\ forceProvision
    /\ HasEvent("promote")
    /\ IsSet(state.active)
    /\ Len(StoredState.draining) > 0

\* The time at which promoteSandbox returned in the tick at hand.
PromotionTime ==
    LET i == CHOOSE j \in 1..Len(trace) : trace[j].ev = "promote" IN trace[i].at

\* The last draining record of the stored state.
LastDraining == StoredState.draining[Len(StoredState.draining)]

\* The drain step of the tick at hand called decommissionSandbox on sandbox id.
Decommissioned(id) ==
    \E i \in 1..Len(trace) : trace[i].ev \in DecommissionOutcomes /\ trace[i].id = id

\* C12 as stated: after a completed tick with a promotion at time T the stored
\* lastRotationAt is T and the predecessor, when there was one, is the last
\* draining record with drainStartedAt = T, untouched by the tick's drain step.
C12_PromotionStampsOneTime ==
    TickOk /\ HasEvent("promote") =>
        /\ StoredState.lastRotationAt = Some(PromotionTime)
        /\ IsSet(state.active) =>
              /\ Len(StoredState.draining) > 0
              /\ LastDraining.id = Val(state.active).id
              /\ LastDraining.drainStartedAt = PromotionTime
              /\ ~Decommissioned(Val(state.active).id)

\* C12 amended: after a completed tick with a promotion at time T the stored
\* lastRotationAt is T and the predecessor, when there was one, is the last
\* draining record, untouched by the tick's drain step, with a drainStartedAt
\* read from the clock after lastRotationAt: not before T, not after the end
\* of the tick.
C12_PromotionStamps ==
    TickOk /\ HasEvent("promote") =>
        /\ StoredState.lastRotationAt = Some(PromotionTime)
        /\ IsSet(state.active) =>
              /\ Len(StoredState.draining) > 0
              /\ LastDraining.id = Val(state.active).id
              /\ LastDraining.drainStartedAt >= PromotionTime
              /\ LastDraining.drainStartedAt <= clock
              /\ ~Decommissioned(Val(state.active).id)

\* A completed tick that promoted over a predecessor and whose drain step
\* stopped an older draining sandbox.
C12_Witness ==
    TickOk /\ HasEvent("promote") /\ IsSet(state.active) /\ HasEvent("stopped")

\* draining record d has not reached the grace period at the tick's now.
Younger(d) == now - d.drainStartedAt < DRAIN_GRACE_MS

\* C13: the drain step removes from draining every record whose age at now is
\* at least DRAIN_GRACE_MS, whatever decommissionSandbox met (stopped,
\* provider 404, another error), keeps the younger records in their order,
\* and always goes on to the persist of the tick without an error.
C13_DrainRemovesAged ==
    [][pc = "drain" =>
          /\ pc' = "persist"
          /\ error' = error
          /\ \A i \in 1..Len(nextState'.draining) : Younger(nextState'.draining[i])
          /\ nextState'.draining = SelectSeq(nextState.draining, Younger)
          /\ \A i \in 1..Len(nextState.draining) :
                ~Younger(nextState.draining[i]) =>
                    \E j \in (Len(trace) + 1)..Len(trace') :
                        /\ trace'[j].id = nextState.draining[i].id
                        /\ trace'[j].ev \in DecommissionOutcomes]_vars

\* A drain step that met an error on an aged-out record and kept a younger one.
C13_Witness ==
    pc = "persist" /\ HasEvent("error") /\ Len(nextState.draining) > 0

\* C14: decommissionSandbox is only called on a sandbox that the loaded state
\* held as a draining record and whose drainStartedAt lies at least
\* DRAIN_GRACE_MS before the time of the call.
C14_StopOnlyAfterGrace ==
    \A i \in 1..Len(trace) :
        trace[i].ev \in DecommissionOutcomes =>
            \E j \in 1..Len(state.draining) :
                /\ state.draining[j].id = trace[i].id
                /\ clock - state.draining[j].drainStartedAt >= DRAIN_GRACE_MS

\* A drain step that has just stopped a superseded sandbox.
C14_Witness == pc = "persist" /\ HasEvent("stopped")

\* ------------------------------------------------- claims on the middleware
Answered == IsSet(gw.request) /\ IsSet(gw.response)
GwReq == Val(gw.request)
GwResp == Val(gw.response)
IsLocalHome == StartsWith(GwReq.pathname, LOCAL_HOME_PREFIX)

\* The store value the middleware resolved: the one under the last key it read.
ResolvedUrl == Val(store[GwResp.reads[Len(GwResp.reads)]])

\* C15: the URL of every rewrite has the scheme and the host of the resolved
\* backend URL, the path of the request and the query of the request; a path
\* or a query of the backend URL itself is dropped.
C15_RewritePreservesPathAndQuery ==
    (Answered /\ GwResp.kind = "rewrite") =>
        GwResp.url = <<ParseUrl(ResolvedUrl).scheme, ParseUrl(ResolvedUrl).host,
                       GwReq.pathname, GwReq.search>>

\* A request without a query rewritten to a backend URL that has a path and
\* a query of its own.
C15_Witness ==
    /\ Answered
    /\ GwResp.kind = "rewrite"
    /\ GwReq.search = ""
    /\ Len(ResolvedUrl) = 4
    /\ ParseUrl(ResolvedUrl).search # ""
    /\ ParseUrl(ResolvedUrl).pathname # GwReq.pathname

\* The Host header of the request at hand equals, letter case aside, the host
\* of a well-formed SANDBOX_SELF_URL.
HostHeaderIsSelf ==
    /\ IsSet(gw.env.SANDBOX_SELF_URL)
    /\ WellFormed(Val(gw.env.SANDBOX_SELF_URL))
    /\ IsSet(GwReq.host)
    /\ ToLowerCase(Val(GwReq.host)) = ToLowerCase(ParseUrl(Val(gw.env.SANDBOX_SELF_URL)).host)

\* C16: a request whose Host header equals the host of SANDBOX_SELF_URL,
\* letter case aside, is never answered with a rewrite, whatever its path
\* (/local-home included).
C16_SelfRequestNeverRewritten ==
    (Answered /\ HostHeaderIsSelf) => GwResp.kind # "rewrite"

\* Such a request, on a path without a bypass rule and with a usable
\* sandbox_active_url in the store, passed through.
C16_Witness ==
    /\ Answered
    /\ HostHeaderIsSelf
    /\ GwReq.host = Some(HostAppMixed)
    /\ GwReq.pathname = <<"/", "d", "o", "c", "s">>
    /\ GwReq.bypassHeader = "unset"
    /\ gw.env.DISABLE_EDGE_REWRITE = "unset"
    /\ gw.failing = {}
    /\ Truthy(store[EDGE_CONFIG_KEYS.active])
    /\ WellFormed(Val(store[EDGE_CONFIG_KEYS.active]))
    /\ GwResp.kind = "next"

\* The request at hand is neither a /local-home request nor bypassed.
NotBypassed == ~IsLocalHome /\ ~shouldBypassMiddleware(gw.env, GwReq)

\* The first value of the two keys that is not null.
FirstNonNull(keys) == IF IsSet(store[keys[1]]) THEN store[keys[1]] ELSE store[keys[2]]
\* The first value of the two keys that is neither null nor empty.
FirstNonEmpty(keys) ==
    IF Truthy(store[keys[1]]) THEN store[keys[1]]
    ELSE IF Truthy(store[keys[2]]) THEN store[keys[2]]
    ELSE Null

\* The answer is a rewrite to the backend urlString under the routing label.
RewritesTo(urlString, label) ==
    /\ GwResp.kind = "rewrite"
    /\ WellFormed(urlString)
    /\ GwResp.url[1] = ParseUrl(urlString).scheme
    /\ GwResp.url[2] = ParseUrl(urlString).host
    /\ GwResp.routing = label

\* The answer is the 503 with cache-control: no-store.
Is503 == GwResp.kind = "503" /\ GwResp.cacheControl = "no-store"

\* C17 as stated: without read errors a request that is not bypassed is
\* rewritten to the first non-null of the active keys as edge-rewrite, else to
\* the first non-null of the last-known-good keys as edge-rewrite-stale, else
\* answered 503 with cache-control: no-store.
C17_ResolvesFirstNonNull ==
    (Answered /\ NotBypassed /\ gw.failing = {}) =>
        IF IsSet(FirstNonNull(ActiveKeys))
        THEN RewritesTo(Val(FirstNonNull(ActiveKeys)), "edge-rewrite")
        ELSE IF IsSet(FirstNonNull(FallbackKeys))
        THEN RewritesTo(Val(FirstNonNull(FallbackKeys)), "edge-rewrite-stale")
        ELSE Is503

\* C17 amended: without read errors a request that is not bypassed resolves
\* the first non-empty value of the active keys, else the first non-empty
\* value of the last-known-good keys; it is rewritten to the resolved value
\* (edge-rewrite for an active one, edge-rewrite-stale for a last-known-good
\* one) when that value parses as a URL, and answered 503 with cache-control:
\* no-store when it does not parse or when nothing was resolved.
C17_ResolvesFirstUsable ==
    (Answered /\ NotBypassed /\ gw.failing = {}) =>
        IF IsSet(FirstNonEmpty(ActiveKeys))
        THEN IF WellFormed(Val(FirstNonEmpty(ActiveKeys)))
             THEN RewritesTo(Val(FirstNonEmpty(ActiveKeys)), "edge-rewrite")
             ELSE Is503
        ELSE IF IsSet(FirstNonEmpty(FallbackKeys))
        THEN IF WellFormed(Val(FirstNonEmpty(FallbackKeys)))
             THEN RewritesTo(Val(FirstNonEmpty(FallbackKeys)), "edge-rewrite-stale")
             ELSE Is503
        ELSE Is503

\* A request rewritten to the last-known-good URL because both active keys
\* are unset.
C17_Witness ==
    /\ Answered
    /\ NotBypassed
    /\ gw.failing = {}
    /\ ~IsSet(FirstNonNull(ActiveKeys))
    /\ GwResp.kind = "rewrite"
    /\ GwResp.routing = "edge-rewrite-stale"

\* A get() of the request at hand threw.
ReadFailed == \E i \in 1..Len(GwResp.reads) : GwResp.reads[i] \in gw.failing
ReadKey(key) == \E i \in 1..Len(GwResp.reads) : GwResp.reads[i] = key

\* C18: the middleware always answers (it lets no exception escape); when a
\* store read throws or the resolved backend URL does not parse, the answer is
\* the 503, or the pass-through for /local-home; and when the read of an
\* active key throws, no last-known-good key is read.
C18_GatewayNeverFails ==
    Answered =>
        /\ GwResp.kind \in {"next", "rewrite", "503"}
        /\ (ReadFailed \/ (GwResp.reads # <<>> /\ Truthy(store[GwResp.reads[Len(GwResp.reads)]])
                              /\ ~WellFormed(ResolvedUrl))) =>
              IF IsLocalHome THEN GwResp.kind = "next" ELSE Is503
        /\ (\E i \in 1..2 : ActiveKeys[i] \in gw.failing /\ ReadKey(ActiveKeys[i])) =>
              \A i \in 1..2 : ~ReadKey(FallbackKeys[i])

\* A request answered 503 after the read of sandbox_active_url threw, though
\* sandbox_last_known_good_url holds a usable URL.
C18_Witness ==
    /\ Answered
    /\ NotBypassed
    /\ gw.failing = {EDGE_CONFIG_KEYS.active}
    /\ Truthy(store[EDGE_CONFIG_KEYS.lastKnownGood])
    /\ WellFormed(Val(store[EDGE_CONFIG_KEYS.lastKnownGood]))
    /\ Is503

\* The effective host of the request: its Host header, else the host of its URL.
EffectiveHost ==
    ToLowerCase(IF IsSet(GwReq.host) THEN Val(GwReq.host) ELSE GwReq.urlHost)

\* One of the bypass rules the claim lists holds for the request at hand.
ListedRule ==
    \/ /\ IsSet(gw.env.SANDBOX_SELF_URL)
       /\ \/ ~WellFormed(Val(gw.env.SANDBOX_SELF_URL))
          \/ EffectiveHost = ToLowerCase(ParseUrl(Val(gw.env.SANDBOX_SELF_URL)).host)
    \/ gw.env.DISABLE_EDGE_REWRITE = "true"
    \/ GwReq.bypassHeader = "true"
    \/ \E prefix \in ROUTE_BYPASS_PREFIXES : StartsWith(GwReq.pathname, prefix)

\* The rule for the assets of the local view: a path under /_next with a
\* referer that contains /local-home.
LocalViewAssetRule ==
    StartsWith(GwReq.pathname, NEXT_ASSETS_PREFIX) /\ Includes(GwReq.referer, LOCAL_HOME_PREFIX)

\* C19 as stated: a request under any listed bypass rule is passed through,
\* and a request under none of them is not.
C19_ListedRulesOnly ==
    Answered => (GwResp.kind = "next" <=> ListedRule)

\* C19 amended: a request is passed through exactly when one of the listed
\* rules holds, or its path starts with /local-home, or its path starts with
\* /_next and its referer contains /local-home.
C19_BypassRules ==
    Answered => (GwResp.kind = "next" <=> (ListedRule \/ IsLocalHome \/ LocalViewAssetRule))

\* A request passed through on the x-sandbox-bypass header alone, with a
\* usable sandbox_active_url in the store.
C19_Witness ==
    /\ Answered
    /\ GwReq.bypassHeader = "true"
    /\ ~isSelfRequest(gw.env, GwReq)
    /\ gw.env.DISABLE_EDGE_REWRITE = "unset"
    /\ GwReq.pathname = <<"/", "d", "o", "c", "s">>
    /\ Truthy(store[EDGE_CONFIG_KEYS.active])
    /\ WellFormed(Val(store[EDGE_CONFIG_KEYS.active]))
    /\ gw.failing = {}
    /\ GwResp.kind = "next"

\* ------------------------------------------- claims on overlapping triggers
\* C20: at most one handler invocation is between its loadState and its final
\* persist at any time.
C20_SingleFlight ==
    ~(pc # "idle" /\ IsSet(parked) /\ Val(parked).pc # "idle")

\* The other invocation, the one the event loop holds suspended or that has
\* already returned.
Other == Val(parked)

PromotedIn(events) ==
    \E i \in 1..Len(events) : events[i].ev = "promote"

\* Both invocations loaded the same state, both provisioned and promoted, and
\* both have returned 200.
BothPromotedFromSameState ==
    /\ TickOk
    /\ IsSet(parked)
    /\ Other.pc = "idle"
    /\ Other.response = "200 ok"
    /\ Other.state = state
    /\ PromotedIn(trace)
    /\ PromotedIn(Other.trace)

Tracked(id) ==
    \/ IsSet(StoredState.active) /\ Val(StoredState.active).id = id
    \/ \E i \in 1..Len(StoredState.draining) : StoredState.draining[i].id = id

\* C21: after two ticks that raced from the same loaded state have both
\* provisioned, promoted and finished, each tick's sandbox is the stored active
\* or is recorded in the stored draining list.
C21_RaceLoserTracked ==
    BothPromotedFromSameState =>
        Tracked(newSandbox.id) /\ Tracked(Other.newSandbox.id)

\* ------------------------------------------------------ claims on the routes
\* The flag values that are truthy: 'true', '1', 'on', ' TRUE ', 'yes'.
TruthyFlags ==
    {Some(<<"t", "r", "u", "e">>), Some(<<"1">>), Some(<<"o", "n">>),
     Some(<<" ", "T", "R", "U", "E", " ">>), Some(<<"y", "e", "s">>)}

TriggerRequest == ApiWatchdogRoute \/ WatchdogRoute

\* C22 as stated: with a truthy NEXT_APP_SKIP_MONITORING_ROUTES every trigger
\* request is answered 404 and starts no tick; with the flag unset or one of
\* the off literals the request starts a tick.
C22_TruthyFlagAnswers404 ==
    [][TriggerRequest =>
          IF skipFlag \in TruthyFlags
          THEN response' = "404" /\ pc' = "idle"
          ELSE pc' = "load"]_vars

\* C22: with a truthy flag no trigger request starts a tick, /api/watchdog
\* answers 404 and /watchdog answers 200 'watchdog routes disabled'; with the
\* flag unset or one of the off literals the request starts a tick.
C22_TruthyFlagStartsNoTick ==
    [][TriggerRequest =>
          IF skipFlag \in TruthyFlags
          THEN /\ pc' = "idle"
               /\ store' = store
               /\ response' \in {"404", "200 watchdog routes disabled"}
               /\ ApiWatchdogRoute => response' = "404"
          ELSE pc' = "load"]_vars

C22_Witness ==
    /\ skipFlag = Some(<<" ", "T", "R", "U", "E", " ">>)
    /\ ticks = MaxTicks
    /\ response = "404"

KeepaliveAnswered == IsSet(keepalive.request) /\ IsSet(keepalive.response)

\* The request carries the configured, non-empty KEEPALIVE_TOKEN.
TokenMatches ==
    /\ keepalive.env.KEEPALIVE_TOKEN = Some("s3cret")
    /\ Val(keepalive.request).token = Some("s3cret")

\* C23: GET /internal/keepalive answers 200 {status: 'ok'} when the
\* x-keepalive-token header equals the configured KEEPALIVE_TOKEN, and 401
\* {status: 'unauthorized'} for every other request, including every request
\* while KEEPALIVE_TOKEN is unset or empty.
C23_KeepaliveNeedsToken ==
    KeepaliveAnswered =>
        IF TokenMatches
        THEN /\ Val(keepalive.response).status = 200
             /\ Val(keepalive.response).body.status = "ok"
        ELSE /\ Val(keepalive.response).status = 401
             /\ Val(keepalive.response).body.status = "unauthorized"

C23_Witness ==
    /\ KeepaliveAnswered
    /\ TokenMatches
    /\ Val(keepalive.response).status = 200

\* ------------------------------------------------- claims on the store keys
LoadedFromLegacyKey ==
    /\ ~IsSet(storeAtStart[EDGE_CONFIG_KEYS.state])
    /\ IsSet(storeAtStart[LEGACY_EDGE_CONFIG_KEYS.state])

\* C24: no step of any tick, also of a tick that loaded its state from
\* sandbox.state, creates, updates or deletes a dotted-form key: every store
\* write changes underscore keys only.
C24_DottedKeysNeverWritten ==
    [][\A k \in DottedKeys : store'[k] = store[k]]_vars

C24_Witness ==
    /\ TickOk
    /\ LoadedFromLegacyKey
    /\ HasEvent("promote")
    /\ store[EDGE_CONFIG_KEYS.state] # storeAtStart[EDGE_CONFIG_KEYS.state]
    /\ store[EDGE_CONFIG_KEYS.active] # storeAtStart[EDGE_CONFIG_KEYS.active]
    /\ \A k \in DottedKeys : store[k] = storeAtStart[k]

\* ---------------------------------------------- claims on the failure write
\* The step is the catch block's persistState(state) reaching the store.
FailureWrite == pc = "fail" /\ store' # store

\* C25: the failure write of a failed tick leaves active, draining,
\* lastRotationAt and lastCheckAt of the stored state as they were immediately
\* before it, whatever ensureSandboxHealth mutated and whatever another tick
\* wrote in the meantime.
C25_FailureWriteKeepsStoredFields ==
    [][FailureWrite =>
          LET before == LoadedState(store)
              after == LoadedState(store')
          IN  /\ after.active = before.active
              /\ after.draining = before.draining
              /\ after.lastRotationAt = before.lastRotationAt
              /\ after.lastCheckAt = before.lastCheckAt]_vars

\* ------------------------------------------------- claims on provisioning
\* The step is an attempt whose Create succeeded and whose bootstrap failed.
BootstrapFailure == pc = "provision" /\ trace' # trace /\ pc' # "waitReady"

\* C26: an attempt whose Create succeeded and whose bootstrap failed calls
\* Stop on its partial sandbox exactly once, and whether or not that Stop
\* fails the bootstrap error is what pRetry gets: it retries, or after the
\* last attempt the tick fails with the bootstrap error.
C26_PartialSandboxStoppedOnce ==
    [][BootstrapFailure =>
          /\ nextId \notin stopCalls
          /\ stopCalls' = stopCalls \cup {nextId}
          /\ Len(trace') = Len(trace) + 2
          /\ trace'[Len(trace) + 1] = [ev |-> "create", id |-> nextId]
          /\ trace'[Len(trace) + 2].ev = "stop"
          /\ trace'[Len(trace) + 2].id = nextId
          /\ IF attempt <= RETRIES
             THEN pc' = "provision" /\ attempt' = attempt + 1 /\ error' = NoError
             ELSE pc' = "fail" /\ error'.kind = "bootstrap-failed"]_vars

C26_Witness ==
    /\ pc = "fail"
    /\ error.kind = "bootstrap-failed"
    /\ trace # <<>>
    /\ trace[Len(trace)].ev = "stop"
    /\ trace[Len(trace)].outcome = "error"
    /\ trace[Len(trace)].id \in stopCalls

\* The tick failed in provisionSandbox.
ProvisioningFailed == error.kind \in AttemptOutcomes \ {"started"}

\* C27: provisionSandbox makes at most 5 attempts per tick; after the first
\* successful attempt it creates no further sandbox, and only the failure of
\* the 5th attempt fails the tick, which then has not promoted anything.
C27_AtMostFiveAttempts ==
    /\ attempt \in 0..(RETRIES + 1)
    /\ pc = "provision" => attempt \in 1..(RETRIES + 1)
    /\ newSandbox # NoSandbox =>
          /\ attempt = 0
          /\ \E i \in 1..Len(trace) :
                /\ trace[i] = [ev |-> "create", id |-> newSandbox.id]
                /\ \A j \in (i + 1)..Len(trace) : trace[j].ev # "create"
    /\ ProvisioningFailed =>
          /\ attempt = RETRIES + 1
          /\ newSandbox = NoSandbox
          /\ ~HasEvent("promote")
          /\ \A k \in PointerKeys : store[k] = storeAtStart[k]
          /\ response \in {"none", "500 watchdog failure", "unhandled error"}

C27_Witness ==
    /\ pc = "idle"
    /\ response = "500 watchdog failure"
    /\ error.kind = "create-failed"
    /\ attempt = RETRIES + 1

\* ------------------------------------------------ claims on the keepalive
KeepaliveEvents(events) ==
    {i \in 1..Len(events) : events[i].ev = "keepalive"}

\* C28: ensureSandboxHealth pings the keepalive endpoint only when the tick
\* is not forced and the probe of the active sandbox answered healthy, and
\* whatever the ping does, the decision to provision follows from force,
\* health and rotationDue alone, nothing fails, and neither the state nor the
\* store nor the response changes.
C28_KeepalivePingHasNoEffect ==
    [][pc = "assess" =>
          /\ KeepaliveEvents(trace') # KeepaliveEvents(trace) =>
                /\ ~forceProvision
                /\ IsSet(nextState.active)
                /\ health' = [healthy |-> TRUE, reason |-> "none"]
                /\ trace'[Len(trace')].id = Val(nextState.active).id
                /\ trace'[Len(trace') - 1] =
                       [ev |-> "probe", id |-> Val(nextState.active).id]
          /\ pc' = IF forceProvision \/ ~health'.healthy \/ rotationDue'
                   THEN "provision" ELSE "drain"
          /\ rotationDue' = RotationDue(nextState, clock)
          /\ error' = NoError
          /\ nextState' = nextState
          /\ state' = state
          /\ store' = store
          /\ response' = response]_vars

C28_Witness ==
    /\ TickOk
    /\ ~HasEvent("create")
    /\ \E i \in KeepaliveEvents(trace) : trace[i].outcome = "threw"

\* ------------------------------------------- claims on the tick's decision
\* The step appends the probe of the active sandbox to the trace.
ProbedNow ==
    \E i \in (Len(trace) + 1)..Len(trace') : trace'[i].ev = "probe"

\* Rotation is due at the time of the decision.
DueNow ==
    IF IsSet(nextState.lastRotationAt)
    THEN clock - Val(nextState.lastRotationAt) >= ROTATION_INTERVAL_MS
    ELSE FALSE

\* C29: a tick provisions iff it is forced, or has no active sandbox, or the
\* probe of its active sandbox answers unhealthy, or rotation is due; rotation
\* is due iff lastRotationAt is set and now - lastRotationAt >=
\* ROTATION_INTERVAL_MS; the reason is 'force-provision-request' if forced,
\* else the health reason if unhealthy, else 'rotation-due'.
C29_ProvisionsIffNeeded ==
    [][pc = "assess" =>
          /\ rotationDue' = DueNow
          /\ pc' = "provision" <=>
                \/ forceProvision
                \/ ~IsSet(nextState.active)
                \/ ProbedNow /\ ~health'.healthy
                \/ DueNow
          /\ pc' # "provision" => pc' = "drain"
          /\ pc' = "provision" =>
                reason' = IF forceProvision THEN "force-provision-request"
                          ELSE IF ~IsSet(nextState.active) THEN "no-active-sandbox"
                          ELSE IF ~health'.healthy THEN health'.reason
                          ELSE "rotation-due"]_vars

\* A tick long after the start found a healthy active sandbox that was never
\* rotated, and left it in place.
C29_Witness ==
    /\ TickOk
    /\ ~forceProvision
    /\ IsSet(state.active)
    /\ ~IsSet(state.lastRotationAt)
    /\ health.healthy
    /\ now >= ROTATION_INTERVAL_MS
    /\ ~HasEvent("create")
    /\ StoredState.active = state.active

\* --------------------------------------------------- claims on cold start
\* The tick at hand or just ended was not forced and started on a store with
\* neither sandbox_state nor sandbox.state.
ColdStart ==
    /\ ticks > 0
    /\ ~monitoringRoutesDisabled(skipFlag)
    /\ ~forceProvision
    /\ ~IsSet(storeAtStart[EDGE_CONFIG_KEYS.state])
    /\ ~IsSet(storeAtStart[LEGACY_EDGE_CONFIG_KEYS.state])

ColdStartOutcome ==
    /\ response = "200 ok"
    /\ store[ActiveKey] = Some(newSandbox.url)
    /\ store[LastKnownGoodKey] = Some(newSandbox.url)
    /\ IsSet(store[StateKey])
    /\ StoredState.active = Some([newSandbox EXCEPT !.status = "healthy"])
    /\ StoredState.draining = <<>>
    /\ IsSet(StoredState.lastRotationAt)

\* C30 as stated: a cold-start tick whose new sandbox became ready ends with
\* both pointers at the new url, the new sandbox persisted as the healthy
\* active, draining empty, lastRotationAt set and the response 200 'ok'.
C30_ColdStartReadyEndsOk ==
    (ColdStart /\ pc = "idle" /\ HasEvent("ready")) => ColdStartOutcome

\* C30: a cold-start tick loads {active: none, draining: []}, provisions with
\* the reason 'no-active-sandbox' without probing, and if the new sandbox
\* becomes ready and both store writes succeed it ends with both pointers at
\* the new url, the new sandbox persisted as the healthy active, draining
\* empty, lastRotationAt set and the response 200 'ok'.
C30_ColdStartProvisions ==
    ColdStart =>
        /\ state.active = Null /\ state.draining = <<>>
        /\ ~HasEvent("probe") /\ ~HasEvent("keepalive")
        /\ PastDecision =>
              /\ reason = "no-active-sandbox"
              /\ pc \in {"drain", "persist"} => HasEvent("promote")
        /\ (pc = "idle" /\ HasEvent("ready") /\ error = NoError) => ColdStartOutcome
        /\ TickOk => HasEvent("ready") /\ ColdStartOutcome

C30_Witness ==
    /\ ColdStart
    /\ pc = "idle"
    /\ reason = "no-active-sandbox"
    /\ HasEvent("ready")
    /\ ColdStartOutcome

\* --------------------------------------------- claims on the disabled tick
\* C31: while the monitoring flag is on, a call of the tick handler returns
\* 200 'watchdog routes disabled' at once (404 when the /api/watchdog route
\* answers before it): no step reads or writes the store, probes, pings or
\* calls the provider, and the store stays as it was.
C31_DisabledTickHasNoEffect ==
    [][(skipFlag \in TruthyFlags) =>
          /\ pc' = "idle"
          /\ response' \in {"404", "200 watchdog routes disabled"}
          /\ (~ApiWatchdogRoute) => (response' = "200 watchdog routes disabled")
          /\ store' = store
          /\ trace' = <<>>
          /\ nextId' = nextId
          /\ stopCalls' = stopCalls
          /\ readyIds' = readyIds
          /\ activeWrites' = activeWrites
          /\ state' = DEFAULT_STATE
          /\ error' = NoError]_vars

C31_Witness ==
    /\ skipFlag \in TruthyFlags
    /\ ticks = MaxTicks
    /\ response = "200 watchdog routes disabled"
    /\ store = storeAtStart
    /\ trace = <<>>

\* ------------------------------------------------- claims on sandbox leaks
\* The sandboxes the provider created in the tick at hand.
CreatedIds == {trace[i].id : i \in {j \in 1..Len(trace) : trace[j].ev = "create"}}

\* The state a load of the store would return names the sandbox.
TrackedInStore(id) ==
    LET st == LoadedState(store)
    IN  \/ IsSet(st.active) /\ Val(st.active).id = id
        \/ \E i \in 1..Len(st.draining) : st.draining[i].id = id

\* C32: once a tick has ended, every sandbox it created is the stored active
\* sandbox, is in the stored draining list, or has had Stop called on it.
C32_NoSandboxLeak ==
    pc = "idle" =>
        \A id \in CreatedIds : TrackedInStore(id) \/ id \in stopCalls

\* ------------------------------------------- claims on the serving sandbox
\* The sandboxes the step calls decommissionSandbox on.
DecommissionedNow ==
    {trace'[i].id : i \in {j \in (Len(trace) + 1)..Len(trace') :
                              trace'[j].ev \in DecommissionOutcomes}}

Pointer(k) == store[k]
Stale == IsSet(gw.response) /\ Val(gw.response).routing = "edge-rewrite-stale"

\* sandbox_active_url and sandbox_last_known_good_url are both unset or both
\* set to the same url.
PointersTogether == Pointer(ActiveKey) = Pointer(LastKnownGoodKey)

\* C34 as stated: from a store without routing pointers the two pointers are
\* both unset or both the same url in every state, and no request is answered
\* through the 'edge-rewrite-stale' branch.
C34_StaleBranchUnreachable == PointersTogether /\ ~Stale

\* C34: from a store without routing pointers, sandbox_active_url and
\* sandbox_last_known_good_url are both unset or both the same url in every
\* state, and no step unsets either of them whatever the health of the
\* active sandbox; a request answered through the 'edge-rewrite-stale' branch
\* read the active keys before the first promotion and the fallback keys
\* after it, and is sent to a sandbox the controller promoted.
C34_PointersMoveTogether ==
    /\ [](/\ PointersTogether
          /\ Stale =>
                /\ IsSet(gw.activeUrl)
                /\ ~IsSet(Val(gw.activeUrl).value)
                /\ IsSet(Pointer(ActiveKey))
                /\ \E u \in activeWrites :
                      Val(gw.response).url = composeSandboxUrl(u, Val(gw.request)))
    /\ [][\A k \in {ActiveKey, LastKnownGoodKey} :
             IsSet(store[k]) => IsSet(store'[k])]_vars

\* A request answered through the stale branch after the second promotion.
C34_Witness ==
    /\ Stale
    /\ Cardinality(activeWrites) = 2
    /\ PointersTogether

\* ------------------------------------------------- claims on drain liveness
\* The persisted draining list.
PersistedDraining == LoadedState(store).draining
\* The persisted records that have been draining for the grace period at t.
GraceOver(t) ==
    {i \in 1..Len(PersistedDraining) :
        PersistedDraining[i].drainStartedAt + DRAIN_GRACE_MS <= t}
\* The tick has read its now.
PastAssess == pc \notin {"idle", "load", "assess"}

====
